---- MODULE Spec2Model ----
(***************************************************************************)
(* A model of three parts of kopia:                                        *)
(*   - the snapshot garbage collector (snapshotgc.Run / runInternal),      *)
(*   - the v2 pack index (Builder.buildV2, indexV2) and the merged index,  *)
(*   - the committed content index (committedContentIndex).                *)
(* Each part has its own specification (SpecGC, SpecIdx, SpecCCI); the     *)
(* variables of the other parts stay at their initial values.              *)
(***************************************************************************)
EXTENDS Integers, Sequences, FiniteSets, TLC

VARIABLES
    gcPC,        \* position of Run: "idle", "mark", "sweep", "done"
    gcDelete,    \* the gcDelete argument of Run
    gcContents,  \* the repository's contents: slot -> [id, ts, deleted]
    gcUsed,      \* the used sync.Map (its key set)
    gcNext,      \* slot of the next content IterateContents yields
    gcNow,       \* rep.Time()
    gcCnt,       \* the five stats.CountSum counters
    gcLog,       \* history: one record per content the sweep callback saw
    gcErr,       \* the error runInternal returns ("" is nil)
    idxPC,       \* pack index: "building" while the Builder is filled, then
                 \* "open" or "failed", "queried" after the call on it
    idxBuilder,  \* the Builder: content ID -> Info
    idxIndex,    \* what Build followed by Open returned
    idxQuery,    \* the last GetInfo / Iterate call on idxIndex and its result
    mrgPC,       \* merged index: "building", then "queried"
    mrgItems,    \* the items each index of the Merged was built with
    mrgIndexes,  \* the Merged: the opened pack indexes, in order
    mrgQuery,    \* the last GetInfo / Iterate call and its result
    cciPC,       \* committed content index: "run" once it is constructed
    cciCache,    \* the cache: the index blob IDs it holds
    cciInUse,    \* c.inUse: index blob ID -> opened index
    cciMerged,   \* c.merged
    cciWatermark, \* c.deletionWatermark
    cciRev,      \* c.rev
    cciQuery,    \* the last call on the committed content index and its result
    cciOpenReaders, \* the pack index readers that are open: << blob, "inUse" >>
                 \* for the reader c.inUse holds for the blob, << blob, "dropped" >>
                 \* for a reader of the blob that nothing refers to any more
    cciCalls,    \* the addIndexBlob calls in flight: caller -> its position
    dmbMu,       \* dirManifestBuilder: the holder of b.mu ("" when it is free)
    dmbSummary,  \* b.summary
    dmbEntries,  \* b.entries
    dmbCalls,    \* the addEntry / addFailedEntry calls in flight: worker -> call
    dmbAdded,    \* history: the calls that have returned, in order
    dmbBuilt,    \* history: what each Build returned and what had been added
    uplPC,       \* Uploader: "idle", "running" (in Upload) or "rootDone"
    uplSource,   \* the kind of the source of the Upload in progress
    uplCanceled, \* u.canceled
    uplTotalWrittenBytes, \* u.totalWrittenBytes
    uplMaxUploadBytes,    \* u.MaxUploadBytes
    uplCopies,   \* the workers inside copyWithProgress, past the IsCanceled check
    uplDirsLeft, \* the directories of the source whose manifest is not built yet
    uplManifests, \* history: the directory manifests written by this Upload
    uplFirstReason, \* history: the reason this Upload first became canceled for
    uplCutShort, \* history: a copy or a loop over entries stopped on IsCanceled
    uplResult,    \* what the last Upload returned
    csiM, \* combineSmallIndexes: the list of indexes it is called with
    csiResult, \* what combineSmallIndexes returned
    revMu, \* revision freshness: the holder of c.mu ("" when it is free)
    revRev, \* c.rev
    revInUse, \* the index blobs of c.inUse
    revLog, \* history: the changes of the index set, each with the value its increment of c.rev produced (0 until then)
    revCalls, \* the addIndexBlob and use calls in flight: caller -> call
    revReaders, \* the readers that have read revision() and not yet looked up: reader -> value read
    revObs, \* history: what the last lookup of a reader saw
    dirCfg, \* directory upload: the source tree, the previous manifests and the options of the Upload
    dirResult, \* what Upload returned
    cpRegistry, \* checkpoints: the callbacks of the root checkpoint registry, entry name -> what the callback returns
    cpLoop, \* the goroutine of periodicallyCheckpoint: waiting, checkpointing, exited
    cpShutdown, \* the shutdown channel is closed
    cpCanceled, \* u.canceled
    cpSaved, \* the snapshot manifests saved in the repository
    cpTicks, \* the ticks the goroutine has taken
    cpInProgress, \* the calls of checkpointRoot that have started and not returned
    cpLast, \* history: the registry, the failure of the repository, the error and the manifests saved of the last checkpointRoot
    repCfg, \* the Uploader's FailFast and MaxUploadBytes
    repU, \* the Uploader: canceled and stats
    repB, \* the directory manifest builder the errors are reported to
    repWritten, \* totalWrittenBytes
    repLast, \* the last call of reportErrorAndMaybeCancel
    wlkEntries, \* the entries of the directory that is uploaded, in the order of Readdir
    wlkU, \* the Uploader: canceled, totalWrittenBytes and stats
    wlkMain, \* uploadDirInternal and the loop over the entries: its position
    wlkChild, \* the work of each entry: entry name -> its position and what it has done
    wlkBuilder, \* thisDirBuilder
    wlkRegistry, \* childCheckpointRegistry: the entries whose callback is registered
    wlkCp, \* the checkpoint callback of the directory: its position and its clone
    wlkCps, \* history: the manifests the checkpoint callback has written
    wlkHist, \* history: what went on after cancellation and after the return
    wlkResult, \* what uploadDirInternal returned
    bgPC, \* Upload of a directory: its position
    bgErr, \* what uploadDirWithCheckpointing returned to Upload
    bgScanCtx, \* scanctx has been canceled
    bgScan, \* the goroutine of the estimation: its position and the files it has counted
    bgEstimates, \* history: the calls of Progress.EstimatedDataSize
    bgShutdown, \* the channel shutdown of periodicallyCheckpoint has been closed
    bgLoop, \* the goroutine of periodicallyCheckpoint: its position, its ticks, what checkpointRoot is about to save
    bgCp, \* the checkpoint registry of the upload: entry -> what its callback returns
    bgCanceled, \* Uploader.canceled
    bgSaved, \* history: the checkpoint manifests that have been saved
    bgResult \* what Upload returned

gcVars == <<gcPC, gcDelete, gcContents, gcUsed, gcNext, gcNow,
            gcCnt, gcLog, gcErr>>

idxVars == <<idxPC, idxBuilder, idxIndex, idxQuery>>

mrgVars == <<mrgPC, mrgItems, mrgIndexes, mrgQuery>>

cciVars == <<cciPC, cciCache, cciInUse, cciMerged, cciWatermark, cciRev, cciQuery,
             cciOpenReaders, cciCalls>>

dmbVars == <<dmbMu, dmbSummary, dmbEntries, dmbCalls, dmbAdded, dmbBuilt>>

uplVars == <<uplPC, uplSource, uplCanceled, uplTotalWrittenBytes, uplMaxUploadBytes,
             uplCopies, uplDirsLeft, uplManifests, uplFirstReason, uplCutShort,
             uplResult>>

csiVars == <<csiM, csiResult>>

revVars == <<revMu, revRev, revInUse, revLog, revCalls, revReaders, revObs>>

dirVars == <<dirCfg, dirResult>>

cpVars == <<cpRegistry, cpLoop, cpShutdown, cpCanceled, cpSaved, cpTicks, cpInProgress, cpLast>>

repVars == <<repCfg, repU, repB, repWritten, repLast>>

wlkVars == <<wlkEntries, wlkU, wlkMain, wlkChild, wlkBuilder, wlkRegistry, wlkCp, wlkCps, wlkHist, wlkResult>>

bgVars == <<bgPC, bgErr, bgScanCtx, bgScan, bgEstimates, bgShutdown, bgLoop, bgCp, bgCanceled, bgSaved, bgResult>>

vars == <<gcVars, idxVars, mrgVars, cciVars, dmbVars, uplVars, csiVars, revVars, dirVars, cpVars, repVars, wlkVars, bgVars>>

\* the parts a specification does not use stay as they are here
GCIdle ==
    /\ gcPC = "off" /\ gcDelete = FALSE /\ gcContents = << >> /\ gcUsed = {}
    /\ gcNext = 0 /\ gcNow = 0 /\ gcCnt = << >> /\ gcLog = << >> /\ gcErr = ""

\* no index has been built, no query has been made
NoIndex == [err |-> "not built"]
NoQuery == [op |-> "none"]

IdxIdle ==
    /\ idxPC = "off" /\ idxBuilder = << >> /\ idxIndex = NoIndex /\ idxQuery = NoQuery

MrgIdle ==
    /\ mrgPC = "off" /\ mrgItems = << >> /\ mrgIndexes = << >> /\ mrgQuery = NoQuery

CciIdle ==
    /\ cciPC = "off" /\ cciCache = {} /\ cciInUse = << >> /\ cciMerged = << >>
    /\ cciWatermark = 0 /\ cciRev = 0 /\ cciQuery = NoQuery
    /\ cciOpenReaders = {} /\ cciCalls = << >>

DmbIdle ==
    /\ dmbMu = "" /\ dmbSummary = << >> /\ dmbEntries = << >> /\ dmbCalls = << >>
    /\ dmbAdded = << >> /\ dmbBuilt = << >>

NoResult == [none |-> TRUE]

UplIdle ==
    /\ uplPC = "idle" /\ uplSource = "" /\ uplCanceled = 0
    /\ uplTotalWrittenBytes = 0 /\ uplMaxUploadBytes = 0
    /\ uplCopies = {} /\ uplDirsLeft = 0 /\ uplManifests = << >>
    /\ uplFirstReason = "" /\ uplCutShort = FALSE /\ uplResult = NoResult

CsiIdle ==
    /\ csiM = << >> /\ csiResult = NoResult

RevIdle ==
    /\ revMu = "" /\ revRev = 0 /\ revInUse = {} /\ revLog = << >>
    /\ revCalls = << >> /\ revReaders = << >> /\ revObs = NoResult

DirIdle ==
    /\ dirCfg = NoResult /\ dirResult = NoResult

CpIdle ==
    /\ cpRegistry = << >> /\ cpLoop = "off" /\ cpShutdown = FALSE /\ cpCanceled = 0
    /\ cpSaved = << >> /\ cpTicks = 0 /\ cpInProgress = 0 /\ cpLast = NoResult

RepIdle ==
    /\ repCfg = NoResult /\ repU = NoResult /\ repB = NoResult /\ repWritten = 0
    /\ repLast = NoResult

WlkIdle ==
    /\ wlkEntries = << >> /\ wlkU = NoResult /\ wlkMain = NoResult /\ wlkChild = << >>
    /\ wlkBuilder = NoResult /\ wlkRegistry = {} /\ wlkCp = NoResult /\ wlkCps = << >>
    /\ wlkHist = NoResult /\ wlkResult = NoResult

BgIdle ==
    /\ bgPC = "off" /\ bgErr = << >> /\ bgScanCtx = FALSE /\ bgScan = NoResult
    /\ bgEstimates = << >> /\ bgShutdown = FALSE /\ bgLoop = NoResult /\ bgCp = << >>
    /\ bgCanceled = 0 /\ bgSaved = << >> /\ bgResult = NoResult

(***************************************************************************)
(* Content IDs.  An ID is a sequence of characters; an ID of odd length    *)
(* starts with a one-character prefix g..z, the rest is lowercase hex.     *)
(***************************************************************************)
Alphabet ==
    << "0", "1", "2", "3", "4", "5", "6", "7", "8", "9",
       "a", "b", "c", "d", "e", "f", "g", "h", "i", "j",
       "k", "l", "m", "n", "o", "p", "q", "r", "s", "t",
       "u", "v", "w", "x", "y", "z", "{" >>

\* the position of a character in ASCII order
AlphabetRank ==
    [c \in { Alphabet[i] : i \in 1..Len(Alphabet) } |->
        CHOOSE i \in 1..Len(Alphabet) : Alphabet[i] = c]

Rank(c) == AlphabetRank[c]

\* ID.Prefix(): the first character of an odd-length ID, else empty
Prefix(id) == IF Len(id) % 2 = 1 THEN id[1] ELSE ""

\* manifest.ContentPrefix
manifestContentPrefix == "m"

(***************************************************************************)
(* Snapshot garbage collector                                              *)
(***************************************************************************)
\* number of contents in the repository
MaxContents == 3
\* safety.MinContentAgeSubjectToGC
MinContentAgeSubjectToGC == 1
\* Timestamps of the contents.  Run starts at time StartTime, so that a
\* content is then either exactly old enough or one second too recent; the
\* clock may advance once during the run.
Timestamps == {0, 1}
StartTime == MinContentAgeSubjectToGC
EndTime == StartTime + 1
\* the periodic flush of the sweep: every flushEvery unused contents
flushEvery == 100000

Slots == 1..MaxContents

\* the ID in slot i: hash byte "0i", with or without a prefix
HexDigit(i) == Alphabet[(i % 16) + 1]
SlotIDs(i) == { << "0", HexDigit(i) >>,
                << manifestContentPrefix, "0", HexDigit(i) >> }

\* ci.GetPackedLength() of the content in slot i
PackedLength(i) == 10 * i

IsSystem(id) == Prefix(id) = manifestContentPrefix

GCIDs == UNION { SlotIDs(i) : i \in Slots }

\* The contents snapshot trees are made of are written by the object
\* writer with the prefix "" or "k": VerifyObject never yields a manifest
\* content.
ObjectContentIDs == { id \in GCIDs : ~IsSystem(id) }

ZeroCountSum == [count |-> 0, sum |-> 0]

\* stats.CountSum.Add
CountSumAdd(cs, n) == [count |-> cs.count + 1, sum |-> cs.sum + n]

ZeroCounters ==
    [unused |-> ZeroCountSum, inUse |-> ZeroCountSum, system |-> ZeroCountSum,
     tooRecent |-> ZeroCountSum, undeleted |-> ZeroCountSum]

InitGC ==
    /\ gcPC = "idle"
    /\ gcDelete \in BOOLEAN
    /\ gcContents \in
         { f \in [Slots -> [id : GCIDs, ts : Timestamps, deleted : BOOLEAN]] :
             \A i \in Slots : f[i].id \in SlotIDs(i) }
    /\ gcUsed = {}
    /\ gcNext = 1
    /\ gcNow = StartTime
    /\ gcCnt = ZeroCounters
    /\ gcLog = << >>
    /\ gcErr = ""
    /\ IdxIdle
    /\ MrgIdle
    /\ CciIdle
    /\ DmbIdle
    /\ UplIdle
    /\ CsiIdle
    /\ RevIdle
    /\ DirIdle
    /\ CpIdle
    /\ RepIdle
    /\ WlkIdle
    /\ BgIdle

\* Run -> runInternal, up to ListSnapshotManifests / LoadSnapshots
GCStart ==
    /\ gcPC = "idle"
    /\ gcPC' = "mark"
    /\ UNCHANGED <<gcDelete, gcContents, gcUsed, gcNext, gcNow, gcCnt, gcLog, gcErr>>

\* findInUseContentIDs: w.Process of one snapshot root; the entry callback
\* stores every content ID VerifyObject returns
GCMarkSnapshot ==
    /\ gcPC = "mark"
    /\ \E S \in SUBSET { gcContents[i].id : i \in Slots } \ {{}} :
         /\ S \subseteq ObjectContentIDs
         /\ gcUsed' = gcUsed \cup S
    /\ UNCHANGED <<gcPC, gcDelete, gcContents, gcNext, gcNow, gcCnt, gcLog, gcErr>>

\* findInUseContentIDs fails (listing, loading, VerifyObject, Process)
GCMarkFail ==
    /\ gcPC = "mark"
    /\ gcPC' = "done"
    /\ gcErr' = "unable to find in-use content ID"
    /\ UNCHANGED <<gcDelete, gcContents, gcUsed, gcNext, gcNow, gcCnt, gcLog>>

\* findInUseContentIDs returns nil
GCMarkDone ==
    /\ gcPC = "mark"
    /\ gcPC' = "sweep"
    /\ UNCHANGED <<gcDelete, gcContents, gcUsed, gcNext, gcNow, gcCnt, gcLog, gcErr>>

\* the repository clock advances while Run is in progress
GCTick ==
    /\ gcPC \in {"mark", "sweep"}
    /\ gcNow < EndTime
    /\ gcNow' = gcNow + 1
    /\ UNCHANGED <<gcPC, gcDelete, gcContents, gcUsed, gcNext, gcCnt, gcLog, gcErr>>

\* a mutant of UndeleteContent: every deleted content is brought back
UndeleteContentAll(contents, i) ==
    [j \in DOMAIN contents |-> [contents[j] EXCEPT !.deleted = FALSE]]

\* ContentManager().UndeleteContent(id)
UndeleteContent(contents, i) == [contents EXCEPT ![i].deleted = FALSE]

\* ContentManager().DeleteContent(id)
DeleteContent(contents, i) == [contents EXCEPT ![i].deleted = TRUE]

\* what the sweep callback saw of a content and did with it
LogEntry(i, bucket, call) ==
    [slot |-> i, id |-> gcContents[i].id,
     used |-> gcContents[i].id \in gcUsed,
     deleted |-> gcContents[i].deleted,
     age |-> gcNow - gcContents[i].ts,
     bucket |-> bucket, call |-> call]

\* a mutant of IsSystemContent: compares with the wrong prefix
IsSystemContentWrongPrefix(ci) == "k" = Prefix(ci.id)

\* manifest.ContentPrefix == ci.GetContentID().Prefix()
IsSystemContent(ci) == manifestContentPrefix = Prefix(ci.id)

\* used.Load(ci.GetContentID())
IsReferenced(ci) == ci.id \in gcUsed

\* a mutant of NeedsUndelete: referenced contents are never undeleted
NeedsUndeleteNever(ci) == FALSE

\* ci.GetDeleted() of a referenced content
NeedsUndelete(ci) == ci.deleted

\* a mutant of TooRecent: the safety window is one second too short
TooRecentShortWindow(ci) == gcNow - ci.ts < MinContentAgeSubjectToGC - 1

\* rep.Time().Sub(ci.Timestamp()) < safety.MinContentAgeSubjectToGC
TooRecent(ci) == gcNow - ci.ts < MinContentAgeSubjectToGC

\* The callback runInternal passes to IterateContents, for the content in
\* slot i; ok is whether the ContentManager / Flush call it makes succeeds.
SweepCallback(i, ok) ==
    LET ci == gcContents[i]
        n == PackedLength(i)
    IN
    IF IsSystemContent(ci) THEN
        /\ gcCnt' = [gcCnt EXCEPT !.system = CountSumAdd(@, n)]
        /\ gcLog' = Append(gcLog, LogEntry(i, "system", "none"))
        /\ UNCHANGED <<gcContents, gcErr>>
    ELSE IF IsReferenced(ci) THEN
        IF NeedsUndelete(ci) THEN
            IF ok THEN
                /\ gcContents' = UndeleteContent(gcContents, i)
                /\ gcCnt' = [gcCnt EXCEPT !.undeleted = CountSumAdd(@, n),
                                          !.inUse = CountSumAdd(@, n)]
                /\ gcLog' = Append(gcLog, LogEntry(i, "inUse", "undelete"))
                /\ UNCHANGED gcErr
            ELSE
                /\ gcErr' = "Could not undelete referenced content"
                /\ gcLog' = Append(gcLog, LogEntry(i, "error", "undelete"))
                /\ UNCHANGED <<gcContents, gcCnt>>
        ELSE
            /\ gcCnt' = [gcCnt EXCEPT !.inUse = CountSumAdd(@, n)]
            /\ gcLog' = Append(gcLog, LogEntry(i, "inUse", "none"))
            /\ UNCHANGED <<gcContents, gcErr>>
    ELSE IF TooRecent(ci) THEN
        /\ gcCnt' = [gcCnt EXCEPT !.tooRecent = CountSumAdd(@, n)]
        /\ gcLog' = Append(gcLog, LogEntry(i, "tooRecent", "none"))
        /\ UNCHANGED <<gcContents, gcErr>>
    ELSE
        LET cnt == gcCnt.unused.count + 1 IN
        /\ gcCnt' = [gcCnt EXCEPT !.unused = CountSumAdd(@, n)]
        /\ IF gcDelete THEN
               IF ok THEN
                   /\ gcContents' = DeleteContent(gcContents, i)
                   /\ gcLog' = Append(gcLog, LogEntry(i, "unused", "delete"))
                   /\ UNCHANGED gcErr
               ELSE IF cnt % flushEvery = 0 THEN
                   \* DeleteContent succeeded, rep.Flush failed
                   /\ gcContents' = DeleteContent(gcContents, i)
                   /\ gcLog' = Append(gcLog, LogEntry(i, "unused", "delete"))
                   /\ gcErr' = "flush error"
               ELSE
                   /\ gcErr' = "error deleting content"
                   /\ gcLog' = Append(gcLog, LogEntry(i, "unused", "delete"))
                   /\ UNCHANGED gcContents
           ELSE
               /\ gcLog' = Append(gcLog, LogEntry(i, "unused", "none"))
               /\ UNCHANGED <<gcContents, gcErr>>

\* IterateContents yields the next content (IncludeDeleted: true) and runs
\* the callback; a callback error ends the iteration
GCSweepContent ==
    /\ gcPC = "sweep"
    /\ gcErr = ""
    /\ gcNext \in Slots
    /\ \E ok \in BOOLEAN : SweepCallback(gcNext, ok)
    /\ gcNext' = gcNext + 1
    /\ UNCHANGED <<gcPC, gcDelete, gcUsed, gcNow>>

\* IterateContents itself fails (an index cannot be read)
GCIterateFail ==
    /\ gcPC = "sweep"
    /\ gcErr = ""
    /\ gcNext \in Slots
    /\ gcErr' = "iterate"
    /\ UNCHANGED <<gcPC, gcDelete, gcContents, gcUsed, gcNext, gcNow, gcCnt, gcLog>>

\* a mutant of SweepResult: the would-delete error is never returned
SweepResultNoWouldDelete(iterErr, flushOK) ==
    IF iterErr # "" THEN "error iterating contents"
    ELSE IF flushOK THEN "" ELSE "flush error"

\* what follows IterateContents: the iteration error, the would-delete
\* error, or the result of the final rep.Flush
SweepResult(iterErr, flushOK) ==
    IF iterErr # "" THEN "error iterating contents"
    ELSE IF gcCnt.unused.count > 0 /\ ~gcDelete
         THEN "Not deleting because '--delete' flag was not set"
    ELSE IF flushOK THEN "" ELSE "flush error"

GCFinish ==
    /\ gcPC = "sweep"
    /\ gcErr # "" \/ gcNext \notin Slots
    /\ \E flushOK \in BOOLEAN : gcErr' = SweepResult(gcErr, flushOK)
    /\ gcPC' = "done"
    /\ UNCHANGED <<gcDelete, gcContents, gcUsed, gcNext, gcNow, gcCnt, gcLog>>

NextGC ==
    \/ GCStart /\ UNCHANGED << idxVars, mrgVars, cciVars, dmbVars, uplVars, csiVars, revVars, dirVars, cpVars, repVars, wlkVars, bgVars >>
    \/ GCMarkSnapshot /\ UNCHANGED << idxVars, mrgVars, cciVars, dmbVars, uplVars, csiVars, revVars, dirVars, cpVars, repVars, wlkVars, bgVars >>
    \/ GCMarkFail /\ UNCHANGED << idxVars, mrgVars, cciVars, dmbVars, uplVars, csiVars, revVars, dirVars, cpVars, repVars, wlkVars, bgVars >>
    \/ GCMarkDone /\ UNCHANGED << idxVars, mrgVars, cciVars, dmbVars, uplVars, csiVars, revVars, dirVars, cpVars, repVars, wlkVars, bgVars >>
    \/ GCTick /\ UNCHANGED << idxVars, mrgVars, cciVars, dmbVars, uplVars, csiVars, revVars, dirVars, cpVars, repVars, wlkVars, bgVars >>
    \/ GCSweepContent /\ UNCHANGED << idxVars, mrgVars, cciVars, dmbVars, uplVars, csiVars, revVars, dirVars, cpVars, repVars, wlkVars, bgVars >>
    \/ GCIterateFail /\ UNCHANGED << idxVars, mrgVars, cciVars, dmbVars, uplVars, csiVars, revVars, dirVars, cpVars, repVars, wlkVars, bgVars >>
    \/ GCFinish /\ UNCHANGED << idxVars, mrgVars, cciVars, dmbVars, uplVars, csiVars, revVars, dirVars, cpVars, repVars, wlkVars, bgVars >>

SpecGC == InitGC /\ [][NextGC]_vars

(***************************************************************************)
(* Claims about the garbage collector                                      *)
(***************************************************************************)
LogIndexes == 1..Len(gcLog)

\* the log entries the sweep put into a bucket
InBucket(b) == { k \in LogIndexes : gcLog[k].bucket = b }

\* IterateContents returned nil: every content was seen, no callback failed
IterationCompleted ==
    /\ gcPC = "done"
    /\ gcErr \notin {"unable to find in-use content ID", "error iterating contents"}

\* C1, as stated: a content younger than MinContentAgeSubjectToGC when the
\* sweep sees it is never passed to DeleteContent, and if it is unreferenced
\* it is counted as tooRecent.
C1_TooRecentAlwaysCounted ==
    \A k \in LogIndexes :
        gcLog[k].age < MinContentAgeSubjectToGC =>
            /\ gcLog[k].call # "delete"
            /\ ~gcLog[k].used => gcLog[k].bucket = "tooRecent"

\* C1, amended: a content younger than MinContentAgeSubjectToGC when the
\* sweep sees it is never passed to DeleteContent and stays as it was; if it
\* is unreferenced and does not carry the manifest prefix it is counted as
\* tooRecent, and tooRecent counts exactly these.
C1_SafetyWindow ==
    /\ \A k \in LogIndexes :
          gcLog[k].age < MinContentAgeSubjectToGC =>
              /\ gcLog[k].call # "delete"
              /\ (~gcLog[k].used /\ ~IsSystem(gcLog[k].id))
                     => gcLog[k].bucket = "tooRecent"
              /\ ~gcLog[k].used
                     => gcContents[gcLog[k].slot].deleted = gcLog[k].deleted
    /\ gcCnt.tooRecent.count =
          Cardinality({ k \in LogIndexes :
              /\ gcLog[k].age < MinContentAgeSubjectToGC
              /\ ~gcLog[k].used
              /\ ~IsSystem(gcLog[k].id) })

\* a run with gcDelete that met a too-recent unreferenced content, a
\* too-recent referenced one, and deleted an old one
C1_Witness ==
    /\ gcPC = "done" /\ gcDelete /\ gcErr = ""
    /\ \E k \in LogIndexes : gcLog[k].age < MinContentAgeSubjectToGC
                              /\ gcLog[k].bucket = "tooRecent"
    /\ \E k \in LogIndexes : gcLog[k].age < MinContentAgeSubjectToGC
                              /\ gcLog[k].used
    /\ \E k \in LogIndexes : gcLog[k].call = "delete"

\* C2: DeleteContent is never called on a content with the manifest prefix
\* nor on a content of the used set; a manifest content is counted as
\* system and nothing else happens to it.
C2_SystemAndUsedNeverDeleted ==
    /\ \A k \in LogIndexes :
          /\ (IsSystem(gcLog[k].id) \/ gcLog[k].id \in gcUsed)
                 => gcLog[k].call # "delete"
          /\ IsSystem(gcLog[k].id) =>
                 /\ gcLog[k].bucket = "system"
                 /\ gcLog[k].call = "none"
                 /\ gcContents[gcLog[k].slot].deleted = gcLog[k].deleted
    /\ gcCnt.system.count =
          Cardinality({ k \in LogIndexes : IsSystem(gcLog[k].id) })

\* a deleting run that saw an old manifest content, an old referenced
\* content and deleted another content
C2_Witness ==
    /\ gcPC = "done" /\ gcDelete /\ gcErr = ""
    /\ \E k \in LogIndexes : IsSystem(gcLog[k].id)
                              /\ gcLog[k].age >= MinContentAgeSubjectToGC
    /\ \E k \in LogIndexes : gcLog[k].id \in gcUsed
                              /\ gcLog[k].age >= MinContentAgeSubjectToGC
    /\ \E k \in LogIndexes : gcLog[k].call = "delete"

\* C3: after Run(gcDelete = true) has returned nil, every content that was
\* in the used set and deleted when the sweep saw it is not deleted, and
\* each is counted once in undeleted and once in inUse.
C3_UndeleteRule ==
    (gcPC = "done" /\ gcErr = "" /\ gcDelete) =>
        LET revived == { k \in LogIndexes : gcLog[k].used /\ gcLog[k].deleted } IN
        /\ \A k \in revived :
              /\ ~gcContents[gcLog[k].slot].deleted
              /\ gcLog[k].call = "undelete"
              /\ gcLog[k].bucket = "inUse"
        /\ gcCnt.undeleted.count = Cardinality(revived)
        /\ gcCnt.inUse.count = Cardinality({ k \in LogIndexes : gcLog[k].used })
        /\ \A k, l \in revived : gcLog[k].slot = gcLog[l].slot => k = l

\* a deleting run that ended without error and undeleted two contents
C3_Witness ==
    /\ gcPC = "done" /\ gcErr = "" /\ gcDelete
    /\ gcCnt.undeleted.count = 2
    /\ gcCnt.inUse.count = 2

\* C4, as stated: without gcDelete no DeleteContent call is made, and once
\* the iteration has completed Run returns an error exactly when a content
\* was classified unused.
C4_ErrorIffUnused ==
    ~gcDelete =>
        /\ \A k \in LogIndexes : gcLog[k].call # "delete"
        /\ IterationCompleted => (gcErr # "" <=> gcCnt.unused.count > 0)

\* C4, amended: without gcDelete no DeleteContent call is made, and once
\* the iteration has completed Run returns the would-delete error exactly
\* when a content was classified unused (unreferenced, no manifest prefix,
\* old enough); when none was, it returns what the final flush returns.
C4_DryRunError ==
    ~gcDelete =>
        /\ \A k \in LogIndexes : gcLog[k].call # "delete"
        /\ gcCnt.unused.count =
              Cardinality({ k \in LogIndexes :
                  /\ ~gcLog[k].used
                  /\ ~IsSystem(gcLog[k].id)
                  /\ gcLog[k].age >= MinContentAgeSubjectToGC })
        /\ IterationCompleted =>
              /\ gcErr = "Not deleting because '--delete' flag was not set"
                     <=> gcCnt.unused.count > 0
              /\ gcCnt.unused.count = 0 => gcErr \in {"", "flush error"}

\* a dry run whose iteration completed and that found an unused content
C4_Witness ==
    /\ ~gcDelete
    /\ IterationCompleted
    /\ gcCnt.unused.count > 0
    /\ gcNext \notin Slots

\* C40 as stated: a run without gcDelete leaves the deleted flag of every
\* content as it was.
C40_DryRunChangesNothing ==
    [][~gcDelete => \A i \in Slots : gcContents'[i].deleted = gcContents[i].deleted]_vars

\* C40: a run without gcDelete never marks a content deleted; the only
\* flag it changes is that of a deleted content that is referenced and does
\* not carry the manifest prefix, which it undeletes.
C40_DryRunNeverDeletes ==
    [][~gcDelete =>
         \A i \in Slots :
             /\ gcContents'[i].id = gcContents[i].id
             /\ gcContents'[i].ts = gcContents[i].ts
             /\ gcContents'[i].deleted # gcContents[i].deleted =>
                    /\ gcContents[i].deleted
                    /\ ~gcContents'[i].deleted
                    /\ gcContents[i].id \in gcUsed
                    /\ ~IsSystem(gcContents[i].id)
                    /\ i = gcNext]_vars

\* a dry run that has ended after the sweep undeleted a referenced content
\* and left a deleted, unreferenced one as it was
C40_Witness ==
    /\ ~gcDelete
    /\ gcPC = "done"
    /\ \E k \in LogIndexes : /\ gcLog[k].call = "undelete"
                              /\ gcLog[k].bucket = "inUse"
                              /\ ~gcContents[gcLog[k].slot].deleted
    /\ \E k \in LogIndexes : /\ gcLog[k].deleted
                              /\ ~gcLog[k].used
                              /\ gcContents[gcLog[k].slot].deleted

(***************************************************************************)
(* Pack index, version 2                                                   *)
(***************************************************************************)
Version2 == 2
v2IndexHeaderSize == 17
v2PackInfoSize == 5
v2FormatInfoSize == 6
v2MaxFormatCount == 255
v2MaxUniquePackIDCount == 16777216
v2MaxShortPackIDCount == 65536
v2MaxContentLength == 268435456
v2MaxShortContentLength == 16777216
v2MaxPackOffset == 1073741824
v2MaxEntrySize == 256
v2EntryOffsetTimestampSeconds == 0
v2EntryOffsetPackOffsetAndFlags == 4
v2EntryOffsetOriginalLength == 8
v2EntryOffsetPackedLength == 11
v2EntryOffsetPackBlobID == 14
v2EntryMinLength == 16
v2EntryOffsetFormatID == 16
v2EntryOffsetFormatIDEnd == 17
v2EntryOffsetExtendedPackBlobID == 17
v2EntryOffsetExtendedPackBlobIDEnd == 18
v2EntryOffsetHighLengthBits == 18
v2EntryOffsetHighLengthBitsEnd == 19
v2EntryMaxLength == 19
v2EntryDeletedFlag == 128
v2EntryPackOffsetMask == 2147483647
v2EntryHighLengthShift == 24
v2EntryHighLengthBitsOriginalLengthShift == 4
v2EntryHghLengthBitsPackedLengthMask == 15
v2EntryExtendedPackBlobIDShift == 16
invalidFormatVersion == 255
invalidCompressionHeaderID == 65535
invalidEncryptionKeyID == 255
invalidBlobID == << "-", "-", "-", "i", "n", "v", "a", "l", "i", "d", "-", "-", "-" >>

\* v2DeletedMarker, 0x80000000, as the four bytes PutUint32 writes for it
v2DeletedMarker == << 128, 0, 0, 0 >>

\* byte(n).  The other bit operations of the code are written as
\* arithmetic: x >> s is x \div 2^s, x << s is x * 2^s, x & mask is
\* x % (mask + 1) for a mask 2^k - 1, x & flag # 0 is (x \div flag) % 2 = 1
\* for a flag 2^k, and x | y is x + y where x and y have no bit in common.
Byte(n) == n % 256

\* binary.BigEndian.PutUint32, PutUint16 and encodeBigEndianUint24 with
\* their conversions uint32(n), uint16(n): the bytes of n, most
\* significant first, the bits above the width dropped
PutUint32(n) == << Byte(n \div 2^24), Byte(n \div 2^16), Byte(n \div 2^8), Byte(n) >>
encodeBigEndianUint24(n) == << Byte(n \div 2^16), Byte(n \div 2^8), Byte(n) >>
PutUint16(n) == << Byte(n \div 2^8), Byte(n) >>

\* binary.BigEndian.Uint32, Uint16 and decodeBigEndianUint24 of the bytes
\* of buf from byte offset off
decodeBigEndianUint32(buf, off) ==
    buf[off + 1] * 2^24 + buf[off + 2] * 2^16 + buf[off + 3] * 2^8 + buf[off + 4]
decodeBigEndianUint24(buf, off) ==
    buf[off + 1] * 2^16 + buf[off + 2] * 2^8 + buf[off + 3]
decodeBigEndianUint16(buf, off) == buf[off + 1] * 2^8 + buf[off + 2]

\* max
Max(a, b) == IF a > b THEN a ELSE b

\* Go's string order a < b, on sequences of characters
StrLess(a, b) ==
    \E i \in 1..(Len(a) + 1) :
        /\ i <= Len(b) + 1
        /\ \A j \in 1..(i - 1) : a[j] = b[j]
        /\ \/ i > Len(a) /\ i <= Len(b)
           \/ i <= Len(a) /\ i <= Len(b) /\ Rank(a[i]) < Rank(b[i])

\* bytes.Compare(a, b) < 0, on sequences of byte values
BytesLess(a, b) ==
    \E i \in 1..(Len(a) + 1) :
        /\ i <= Len(b) + 1
        /\ \A j \in 1..(i - 1) : a[j] = b[j]
        /\ \/ i > Len(a) /\ i <= Len(b)
           \/ i <= Len(a) /\ i <= Len(b) /\ a[i] < b[i]

\* the ASCII code of a character of Alphabet, and back
CharCode(c) == IF Rank(c) <= 10 THEN 47 + Rank(c) ELSE 86 + Rank(c)
CodeChar(n) == IF n <= 57 THEN Alphabet[n - 47] ELSE Alphabet[n - 86]

\* hex.Decode / hex.EncodeToString
RECURSIVE HexDecode(_)
HexDecode(h) ==
    IF Len(h) < 2 THEN << >>
    ELSE << 16 * (Rank(h[1]) - 1) + (Rank(h[2]) - 1) >> \o HexDecode(SubSeq(h, 3, Len(h)))

RECURSIVE HexEncode(_)
HexEncode(b) ==
    IF b = << >> THEN << >>
    ELSE << Alphabet[(b[1] \div 16) + 1], Alphabet[(b[1] % 16) + 1] >> \o HexEncode(Tail(b))

\* contentIDToBytes: the prefix byte (0 when the ID has none), then the hash
contentIDToBytes(id) ==
    IF Len(id) % 2 = 1
    THEN << CharCode(id[1]) >> \o HexDecode(Tail(id))
    ELSE << 0 >> \o HexDecode(id)

\* bytesToContentID
bytesToContentID(b) ==
    IF b = << >> THEN << >>
    ELSE IF b[1] = 0 THEN HexEncode(Tail(b))
    ELSE << CodeChar(b[1]) >> \o HexEncode(Tail(b))

\* indexV2FormatInfoFromInfo
indexV2FormatInfoFromInfo(v) == v.fmt

\* the elements of seq at the positions of rank, by ascending rank
InOrder(seq, rank) ==
    [k \in 1..Cardinality(DOMAIN rank) |-> seq[CHOOSE i \in DOMAIN rank : rank[i] = k - 1]]

\* the values of a sequence without repetitions, in order of first appearance
UniqueInOrder(seq, acc) ==
    LET first == { i \in 1..Len(seq) :
                     /\ \A j \in 1..(i - 1) : seq[j] # seq[i]
                     /\ \A k \in 1..Len(acc) : acc[k] # seq[i] }
    IN acc \o InOrder(seq, [i \in first |-> Cardinality({ j \in first : j < i })])

\* the number a map built by first appearance gives to v
IndexIn(seq, v) == (CHOOSE i \in 1..Len(seq) : seq[i] = v) - 1

\* buildUniqueFormatToIndexMap: the formats, at the index the map gives them
buildUniqueFormatToIndexMap(sortedInfos) ==
    UniqueInOrder([i \in 1..Len(sortedInfos) |-> indexV2FormatInfoFromInfo(sortedInfos[i])], << >>)

\* buildPackIDToIndexMap: the pack blob IDs, at the index the map gives them
buildPackIDToIndexMap(sortedInfos) ==
    UniqueInOrder([i \in 1..Len(sortedInfos) |-> sortedInfos[i].pack], << >>)

\* maxContentLengths
maxContentLengths(sortedInfos) ==
    LET Greatest(S) == CHOOSE m \in S \cup { 0 } : \A x \in S : x <= m IN
    [packed |-> Greatest({ sortedInfos[i].plen : i \in 1..Len(sortedInfos) }),
     original |-> Greatest({ sortedInfos[i].olen : i \in 1..Len(sortedInfos) }),
     offset |-> Greatest({ sortedInfos[i].offset : i \in 1..Len(sortedInfos) })]

\* Builder.sortedContents: the infos of the builder, ascending by content ID
ByRank(rank) ==
    [k \in 1..Cardinality(DOMAIN rank) |-> CHOOSE x \in DOMAIN rank : rank[x] = k - 1]

SortInfos(S) == ByRank([x \in S |-> Cardinality({ y \in S : StrLess(y.id, x.id) })])

sortedContents(b) == SortInfos({ b[id] : id \in DOMAIN b })

\* newIndexBuilderV2: the size of an entry
EntrySizeFor(formatCount, packCount, maxPacked, maxOriginal) ==
    LET s1 == IF formatCount > 1
              THEN Max(v2EntryOffsetFormatID, v2EntryOffsetFormatIDEnd)
              ELSE v2EntryOffsetFormatID
        s2 == IF packCount > v2MaxShortPackIDCount
              THEN Max(s1, v2EntryOffsetExtendedPackBlobIDEnd) ELSE s1
    IN IF maxPacked >= v2MaxShortContentLength \/ maxOriginal >= v2MaxShortContentLength
       THEN Max(s2, v2EntryOffsetHighLengthBitsEnd) ELSE s2

\* newIndexBuilderV2 without the comparison of the lengths to v2MaxContentLength
newIndexBuilderV2AnyLength(sortedInfos) ==
    LET formats == buildUniqueFormatToIndexMap(sortedInfos)
        packs == buildPackIDToIndexMap(sortedInfos)
        mx == maxContentLengths(sortedInfos)
    IN
    IF Len(formats) > v2MaxFormatCount
        THEN [err |-> "unsupported - too many unique formats"]
    ELSE IF Len(packs) > v2MaxUniquePackIDCount
        THEN [err |-> "unsupported - too many unique pack IDs"]
    ELSE IF mx.offset >= v2MaxPackOffset
        THEN [err |-> "pack offset is too high"]
    ELSE [err |-> "",
          keyLength |-> IF Len(sortedInfos) > 0
                        THEN Len(contentIDToBytes(sortedInfos[1].id)) ELSE -1,
          entrySize |-> EntrySizeFor(Len(formats), Len(packs), mx.packed, mx.original),
          entryCount |-> Len(sortedInfos),
          uniqueFormatInfo2Index |-> formats,
          packID2Index |-> packs,
          baseTimestamp |-> 0]

\* newIndexBuilderV2
newIndexBuilderV2(sortedInfos) ==
    LET formats == buildUniqueFormatToIndexMap(sortedInfos)
        packs == buildPackIDToIndexMap(sortedInfos)
        mx == maxContentLengths(sortedInfos)
    IN
    IF Len(formats) > v2MaxFormatCount
        THEN [err |-> "unsupported - too many unique formats"]
    ELSE IF Len(packs) > v2MaxUniquePackIDCount
        THEN [err |-> "unsupported - too many unique pack IDs"]
    ELSE IF mx.packed >= v2MaxContentLength \/ mx.original >= v2MaxContentLength
        THEN [err |-> "maximum content length is too high"]
    ELSE IF mx.offset >= v2MaxPackOffset
        THEN [err |-> "pack offset is too high"]
    ELSE [err |-> "",
          keyLength |-> IF Len(sortedInfos) > 0
                        THEN Len(contentIDToBytes(sortedInfos[1].id)) ELSE -1,
          entrySize |-> EntrySizeFor(Len(formats), Len(packs), mx.packed, mx.original),
          entryCount |-> Len(sortedInfos),
          uniqueFormatInfo2Index |-> formats,
          packID2Index |-> packs,
          baseTimestamp |-> 0]

\* prepareExtraData: the names of the non-empty pack blob IDs, one after the
\* other in order of first appearance, and where each starts
RECURSIVE ExtraDataOf(_)
ExtraDataOf(packs) ==
    IF packs = << >> THEN << >> ELSE Head(packs) \o ExtraDataOf(Tail(packs))

packBlobIDOffset(packs, pack) ==
    IF pack = << >> THEN 0
    ELSE Len(ExtraDataOf(SubSeq(packs, 1, IndexIn(packs, pack))))

extraDataOffset(b2) ==
    v2IndexHeaderSize
    + b2.entryCount * (b2.keyLength + b2.entrySize)
    + Len(b2.packID2Index) * v2PackInfoSize
    + Len(b2.uniqueFormatInfo2Index) * v2FormatInfoSize

\* packOffsetAndFlags |= v2DeletedMarker, on the four bytes of the word
OrDeletedMarker(w) ==
    [i \in 1..4 |-> IF v2DeletedMarker[i] = 0 \/ (w[i] \div v2DeletedMarker[i]) % 2 = 1
                    THEN w[i] ELSE w[i] + v2DeletedMarker[i]]

\* a mutant of EntryBuf: the deleted flag is not written
EntryBufNoDeletedFlag(b2, it) ==
    LET packBlobIndex == IndexIn(b2.packID2Index, it.pack) IN
    PutUint32(it.ts - b2.baseTimestamp)
    \o PutUint32(it.offset)
    \o encodeBigEndianUint24(it.olen)
    \o encodeBigEndianUint24(it.plen)
    \o PutUint16(packBlobIndex)
    \o << IndexIn(b2.uniqueFormatInfo2Index, indexV2FormatInfoFromInfo(it)) >>
    \o << Byte(packBlobIndex \div 2^v2EntryExtendedPackBlobIDShift) >>
    \o << Byte(it.plen \div 2^v2EntryHighLengthShift)
          + Byte((it.olen \div 2^v2EntryHighLengthShift)
                 * 2^v2EntryHighLengthBitsOriginalLengthShift) >>

\* writeIndexValueEntry: the v2EntryMaxLength bytes of buf (timestamp, pack
\* offset and flags, original length, packed length, pack ID, format ID,
\* extended pack ID, high length bits)
EntryBuf(b2, it) ==
    LET packBlobIndex == IndexIn(b2.packID2Index, it.pack) IN
    PutUint32(it.ts - b2.baseTimestamp)
    \o (IF it.deleted THEN OrDeletedMarker(PutUint32(it.offset)) ELSE PutUint32(it.offset))
    \o encodeBigEndianUint24(it.olen)
    \o encodeBigEndianUint24(it.plen)
    \o PutUint16(packBlobIndex)
    \o << IndexIn(b2.uniqueFormatInfo2Index, indexV2FormatInfoFromInfo(it)) >>
    \o << Byte(packBlobIndex \div 2^v2EntryExtendedPackBlobIDShift) >>
    \o << Byte(it.plen \div 2^v2EntryHighLengthShift)
          + Byte((it.olen \div 2^v2EntryHighLengthShift)
                 * 2^v2EntryHighLengthBitsOriginalLengthShift) >>

\* writeIndexValueEntry: the bytes written, or the panic when a byte that
\* does not fit into entrySize is not zero
writeIndexValueEntry(b2, it) ==
    LET buf == EntryBuf(b2, it) IN
    IF \E i \in b2.entrySize..(v2EntryMaxLength - 1) : buf[i + 1] # 0
    THEN [err |-> "panic: encoding bug", data |-> << >>]
    ELSE [err |-> "", data |-> SubSeq(buf, 1, b2.entrySize)]

\* writeIndexEntry
writeIndexEntry(b2, it) ==
    LET k == contentIDToBytes(it.id) IN
    IF Len(k) # b2.keyLength
    THEN [err |-> "inconsistent key length", key |-> k, data |-> << >>]
    ELSE [err |-> writeIndexValueEntry(b2, it).err, key |-> k,
          data |-> writeIndexValueEntry(b2, it).data]

\* writePackIDEntry
writePackIDEntry(b2, packID) ==
    [nameLength |-> Byte(Len(packID)),
     nameOffset |-> PutUint32(packBlobIDOffset(b2.packID2Index, packID) + extraDataOffset(b2))]

\* writeFormatInfoEntry
writeFormatInfoEntry(f) ==
    [compressionHeaderID |-> PutUint32(f.compressionHeaderID),
     formatVersion |-> f.formatVersion,
     encryptionKeyID |-> f.encryptionKeyID]

\* Builder.buildV2: the error, and the bytes of the index as its sections
buildV2(b) ==
    LET sortedInfos == sortedContents(b)
        b2 == newIndexBuilderV2(sortedInfos)
    IN
    IF b2.err # "" THEN [err |-> b2.err]
    ELSE IF b2.keyLength <= 1 THEN [err |-> "invalid key length"]
    ELSE
    LET entries == [i \in 1..Len(sortedInfos) |-> writeIndexEntry(b2, sortedInfos[i])]
    IN
    IF \E i \in 1..Len(entries) : entries[i].err # ""
    THEN [err |-> "unable to write entry"]
    ELSE [err |-> "",
          header |-> [version |-> Version2,
                      keySize |-> Byte(b2.keyLength),
                      entrySize |-> PutUint16(b2.entrySize),
                      entryCount |-> PutUint32(b2.entryCount),
                      packCount |-> PutUint32(Len(b2.packID2Index)),
                      formatCount |-> Byte(Len(b2.uniqueFormatInfo2Index)),
                      baseTimestamp |-> PutUint32(b2.baseTimestamp)],
          entries |-> [i \in 1..Len(entries) |->
                          [key |-> entries[i].key, data |-> entries[i].data]],
          packs |-> [i \in 1..Len(b2.packID2Index) |->
                          writePackIDEntry(b2, b2.packID2Index[i])],
          formats |-> [i \in 1..Len(b2.uniqueFormatInfo2Index) |->
                          writeFormatInfoEntry(b2.uniqueFormatInfo2Index[i])],
          extraData |-> ExtraDataOf(b2.packID2Index)]

\* the end of the index file: the sum of the lengths of its sections
extraDataStart(f) ==
    v2IndexHeaderSize
    + Len(f.entries) * (f.header.keySize + decodeBigEndianUint16(f.header.entrySize, 0))
    + Len(f.packs) * v2PackInfoSize
    + Len(f.formats) * v2FormatInfoSize

\* parseFormatsBuffer
parseFormatsBuffer(formatsBuf, cnt) ==
    [i \in 1..cnt |-> [compressionHeaderID |->
                           decodeBigEndianUint32(formatsBuf[i].compressionHeaderID, 0),
                       formatVersion |-> formatsBuf[i].formatVersion,
                       encryptionKeyID |-> formatsBuf[i].encryptionKeyID]]

\* openV2PackIndex: the header as read, the offsets computed from it, the
\* formats section read ahead
openV2PackIndex(f) ==
    LET hi == [version |-> f.header.version,
               keySize |-> f.header.keySize,
               entrySize |-> decodeBigEndianUint16(f.header.entrySize, 0),
               entryCount |-> decodeBigEndianUint32(f.header.entryCount, 0),
               packCount |-> decodeBigEndianUint32(f.header.packCount, 0),
               formatCount |-> f.header.formatCount,
               baseTimestamp |-> decodeBigEndianUint32(f.header.baseTimestamp, 0)]
        entryStride == hi.keySize + hi.entrySize
        packsOffset == v2IndexHeaderSize + hi.entryCount * entryStride
        formatsOffset == packsOffset + hi.packCount * v2PackInfoSize
    IN
    IF \/ hi.keySize <= 1
       \/ hi.entrySize < v2EntryMinLength
       \/ hi.entrySize > v2EntryMaxLength
       \/ hi.entryCount < 0
       \/ hi.formatCount > v2MaxFormatCount
        THEN [err |-> "invalid header"]
    ELSE IF entryStride > v2MaxEntrySize
        THEN [err |-> "invalid header - entry stride too big"]
    ELSE IF \/ formatsOffset # packsOffset + Len(f.packs) * v2PackInfoSize
            \/ hi.formatCount > Len(f.formats)
        THEN [err |-> "unable to read formats section"]
    ELSE [err |-> "",
          hdr |-> hi,
          readerAt |-> f,
          formats |-> parseFormatsBuffer(f.formats, hi.formatCount)]

\* a mutant of getPackBlobIDByIndex: the name of the first pack, whatever ndx
getPackBlobIDByIndexFirst(b, ndx) ==
    IF ndx >= b.hdr.packCount THEN invalidBlobID
    ELSE LET nameLength == b.readerAt.packs[1].nameLength
             nameOffset == decodeBigEndianUint32(b.readerAt.packs[1].nameOffset, 0)
             at == nameOffset - extraDataStart(b.readerAt)
         IN SubSeq(b.readerAt.extraData, at + 1, at + nameLength)

\* indexV2.getPackBlobIDByIndex
getPackBlobIDByIndex(b, ndx) ==
    IF ndx >= b.hdr.packCount THEN invalidBlobID
    ELSE LET nameLength == b.readerAt.packs[ndx + 1].nameLength
             nameOffset == decodeBigEndianUint32(b.readerAt.packs[ndx + 1].nameOffset, 0)
             at == nameOffset - extraDataStart(b.readerAt)
         IN IF at < 0 \/ at + nameLength > Len(b.readerAt.extraData)
            THEN invalidBlobID
            ELSE SubSeq(b.readerAt.extraData, at + 1, at + nameLength)

\* indexV2EntryInfo.GetTimestampSeconds
GetTimestampSeconds(b, data) ==
    decodeBigEndianUint32(data, v2EntryOffsetTimestampSeconds) + b.hdr.baseTimestamp

\* a mutant of GetDeleted: the flag is looked for in the lowest bit
GetDeletedLowBit(b, data) == data[v2EntryOffsetPackOffsetAndFlags + 1] % 2 = 1

\* indexV2EntryInfo.GetDeleted
GetDeleted(b, data) ==
    (data[v2EntryOffsetPackOffsetAndFlags + 1] \div v2EntryDeletedFlag) % 2 = 1

\* indexV2EntryInfo.GetPackOffset
GetPackOffset(b, data) ==
    decodeBigEndianUint32(
        << data[v2EntryOffsetPackOffsetAndFlags + 1] % ((v2EntryPackOffsetMask \div 2^24) + 1) >>
        \o SubSeq(data, v2EntryOffsetPackOffsetAndFlags + 2, v2EntryOffsetPackOffsetAndFlags + 4),
        0)

\* indexV2EntryInfo.GetOriginalLength
GetOriginalLength(b, data) ==
    IF Len(data) > v2EntryOffsetHighLengthBits
    THEN decodeBigEndianUint24(data, v2EntryOffsetOriginalLength)
         + (data[v2EntryOffsetHighLengthBits + 1] \div 2^v2EntryHighLengthBitsOriginalLengthShift)
           * 2^v2EntryHighLengthShift
    ELSE decodeBigEndianUint24(data, v2EntryOffsetOriginalLength)

\* indexV2EntryInfo.GetPackedLength
GetPackedLength(b, data) ==
    IF Len(data) > v2EntryOffsetHighLengthBits
    THEN decodeBigEndianUint24(data, v2EntryOffsetPackedLength)
         + (data[v2EntryOffsetHighLengthBits + 1] % (v2EntryHghLengthBitsPackedLengthMask + 1))
           * 2^v2EntryHighLengthShift
    ELSE decodeBigEndianUint24(data, v2EntryOffsetPackedLength)

\* indexV2EntryInfo.formatIDIndex
formatIDIndex(b, data) ==
    IF Len(data) > v2EntryOffsetFormatID THEN data[v2EntryOffsetFormatID + 1] ELSE 0

\* GetFormatVersion, GetCompressionHeaderID, GetEncryptionKeyID: all three
\* look up e.b.formats[fid], which is out of range for fid = len(formats)
GetFormat(b, data) ==
    LET fid == formatIDIndex(b, data) IN
    IF fid > Len(b.formats)
    THEN [compressionHeaderID |-> invalidCompressionHeaderID,
          formatVersion |-> invalidFormatVersion,
          encryptionKeyID |-> invalidEncryptionKeyID]
    ELSE IF fid = Len(b.formats) THEN "panic: index out of range"
    ELSE b.formats[fid + 1]

\* indexV2EntryInfo.GetPackBlobID
GetPackBlobID(b, data) ==
    getPackBlobIDByIndex(b,
        IF Len(data) > v2EntryOffsetExtendedPackBlobID
        THEN decodeBigEndianUint16(data, v2EntryOffsetPackBlobID)
             + data[v2EntryOffsetExtendedPackBlobID + 1] * 2^v2EntryExtendedPackBlobIDShift
        ELSE decodeBigEndianUint16(data, v2EntryOffsetPackBlobID))

\* what the getters of an indexV2EntryInfo return
InfoOf(b, contentID, data) ==
    [id |-> contentID,
     ts |-> GetTimestampSeconds(b, data),
     pack |-> GetPackBlobID(b, data),
     offset |-> GetPackOffset(b, data),
     olen |-> GetOriginalLength(b, data),
     plen |-> GetPackedLength(b, data),
     deleted |-> GetDeleted(b, data),
     fmt |-> GetFormat(b, data)]

\* indexV2.entryToInfo
entryToInfo(b, contentID, entryData) ==
    IF Len(entryData) < v2EntryMinLength
    THEN [err |-> "invalid entry length", found |-> FALSE]
    ELSE [err |-> "", found |-> TRUE, info |-> InfoOf(b, contentID, entryData)]

\* sort.Search(n, f) for f(p) = key of entry p >= contentID, as IDs
RECURSIVE SearchID(_, _, _, _)
SearchID(b, contentID, i, j) ==
    IF i < j
    THEN LET h == (i + j) \div 2 IN
         IF StrLess(bytesToContentID(b.readerAt.entries[h + 1].key), contentID)
         THEN SearchID(b, contentID, h + 1, j)
         ELSE SearchID(b, contentID, i, h)
    ELSE i

\* indexV2.findEntryPosition
findEntryPosition(b, contentID) == SearchID(b, contentID, 0, b.hdr.entryCount)

\* contentIDBytesGreaterOrEqual
contentIDBytesGreaterOrEqual(a, b) == ~BytesLess(a, b)

\* sort.Search(n, f) for f(p) = key of entry p >= idBytes, as bytes
RECURSIVE SearchBytes(_, _, _, _)
SearchBytes(b, idBytes, i, j) ==
    IF i < j
    THEN LET h == (i + j) \div 2 IN
         IF contentIDBytesGreaterOrEqual(b.readerAt.entries[h + 1].key, idBytes)
         THEN SearchBytes(b, idBytes, i, h)
         ELSE SearchBytes(b, idBytes, h + 1, j)
    ELSE i

\* indexV2.findEntryPositionExact
findEntryPositionExact(b, idBytes) == SearchBytes(b, idBytes, 0, b.hdr.entryCount)

\* indexV2.findEntry
findEntry(b, contentID) ==
    LET key == contentIDToBytes(contentID)
        position == findEntryPositionExact(b, key)
    IN
    IF Len(key) # b.hdr.keySize
        THEN [err |-> "invalid content ID", found |-> FALSE]
    ELSE IF position >= b.hdr.entryCount
        THEN [err |-> "", found |-> FALSE]
    ELSE IF b.readerAt.entries[position + 1].key = key
        THEN [err |-> "", found |-> TRUE, data |-> b.readerAt.entries[position + 1].data]
    ELSE [err |-> "", found |-> FALSE]

\* indexV2.GetInfo
GetInfo(b, contentID) ==
    LET e == findEntry(b, contentID) IN
    IF e.err # "" THEN [err |-> e.err, found |-> FALSE]
    ELSE IF ~e.found THEN [err |-> "", found |-> FALSE]
    ELSE entryToInfo(b, contentID, e.data)

\* a mutant of IterateFrom: the end of the range is included
RECURSIVE IterateFromInclusive(_, _, _)
IterateFromInclusive(b, r, i) ==
    IF i >= b.hdr.entryCount THEN << >>
    ELSE LET contentID == bytesToContentID(b.readerAt.entries[i + 1].key) IN
         IF StrLess(r.EndID, contentID) THEN << >>
         ELSE << entryToInfo(b, contentID, b.readerAt.entries[i + 1].data).info >>
              \o IterateFromInclusive(b, r, i + 1)

\* indexV2.Iterate, the loop from position i: the infos handed to cb
RECURSIVE IterateFrom(_, _, _)
IterateFrom(b, r, i) ==
    IF i >= b.hdr.entryCount THEN << >>
    ELSE LET contentID == bytesToContentID(b.readerAt.entries[i + 1].key) IN
         IF ~StrLess(contentID, r.EndID) THEN << >>
         ELSE << entryToInfo(b, contentID, b.readerAt.entries[i + 1].data).info >>
              \o IterateFrom(b, r, i + 1)

\* indexV2.Iterate with a callback that records what it is given
Iterate(b, r) == IterateFrom(b, r, findEntryPosition(b, r.StartID))

(***************************************************************************)
(* One pack index: a builder is filled, built and opened (indexWithItems), *)
(* and the opened index is queried                                         *)
(***************************************************************************)
MaxEntries == 3

\* the content IDs of the builder: three without a prefix and one with the
\* prefix k, all of key length 2, and one of key length 3
IdxIDs ==
    { << "0", "1" >>, << "a", "0" >>, << "f", "f" >>, << "k", "0", "1" >>,
      << "0", "1", "0", "2" >> }

\* the infos a content ID is added with: small and large lengths, small and
\* large timestamps, one and the other format, live and deleted, and a pack
\* offset the format has no room for
InfosFor(id) ==
    LET large == 2^30 + (2^30 - 1)
        formatA == [compressionHeaderID |-> 0, formatVersion |-> 1, encryptionKeyID |-> 0]
        formatB == [compressionHeaderID |-> large, formatVersion |-> 2, encryptionKeyID |-> 255]
    IN
    { [id |-> id, ts |-> 0, pack |-> << "x", "x" >>, offset |-> 0,
       olen |-> 1, plen |-> 1, deleted |-> FALSE, fmt |-> formatA],
      [id |-> id, ts |-> large, pack |-> << "y", "y" >>, offset |-> v2MaxPackOffset - 1,
       olen |-> v2MaxShortContentLength - 1, plen |-> v2MaxShortContentLength - 1,
       deleted |-> TRUE, fmt |-> formatA],
      [id |-> id, ts |-> 1, pack |-> << "x", "x" >>, offset |-> 5,
       olen |-> v2MaxShortContentLength, plen |-> v2MaxContentLength - 1,
       deleted |-> FALSE, fmt |-> formatB],
      [id |-> id, ts |-> 2, pack |-> << "z", "z", "z" >>, offset |-> 2^29 + 1,
       olen |-> v2MaxContentLength - 1, plen |-> 3,
       deleted |-> TRUE, fmt |-> formatB],
      [id |-> id, ts |-> 1, pack |-> << "y", "y" >>, offset |-> v2MaxPackOffset,
       olen |-> 1, plen |-> 1, deleted |-> FALSE, fmt |-> formatA] }

\* IDRange values: AllIDs, AllNonPrefixedIDs, AllPrefixedIDs, PrefixRange
AllIDs == [StartID |-> << >>, EndID |-> << "{" >>]
AllNonPrefixedIDs == [StartID |-> << >>, EndID |-> << "g" >>]
AllPrefixedIDs == [StartID |-> << "g" >>, EndID |-> << "{" >>]
PrefixRange(prefix) == [StartID |-> prefix, EndID |-> prefix \o << "{" >>]

\* the ranges iterated over
Ranges ==
    { AllIDs, AllNonPrefixedIDs, AllPrefixedIDs,
      PrefixRange(<< "a" >>), PrefixRange(<< "k" >>),
      [StartID |-> << "0", "2" >>, EndID |-> << "f", "f" >>],
      [StartID |-> << "a", "0" >>, EndID |-> << "a", "0" >>] }

InitIdx ==
    /\ idxPC = "building"
    /\ idxBuilder = << >>
    /\ idxIndex = NoIndex
    /\ idxQuery = NoQuery
    /\ GCIdle
    /\ MrgIdle
    /\ CciIdle
    /\ DmbIdle
    /\ UplIdle
    /\ CsiIdle
    /\ RevIdle
    /\ DirIdle
    /\ CpIdle
    /\ RepIdle
    /\ WlkIdle
    /\ BgIdle

\* Builder.Add of an info whose content ID the builder does not hold
BuilderAdd ==
    /\ idxPC = "building"
    /\ Cardinality(DOMAIN idxBuilder) < MaxEntries
    /\ \E id \in IdxIDs \ DOMAIN idxBuilder : \E it \in InfosFor(id) :
           idxBuilder' = (id :> it) @@ idxBuilder
    /\ UNCHANGED << idxPC, idxIndex, idxQuery >>

\* Builder.Build(&buf, Version2), then Open(buf.Bytes(), ...)
BuildAndOpen(b) ==
    LET f == buildV2(b) IN
    IF f.err # "" THEN [err |-> "build error"] ELSE openV2PackIndex(f)

\* indexWithItems, after the items have been added
IdxBuildOpen ==
    /\ idxPC = "building"
    /\ idxIndex' = BuildAndOpen(idxBuilder)
    /\ idxPC' = IF idxIndex'.err = "" THEN "open" ELSE "failed"
    /\ UNCHANGED << idxBuilder, idxQuery >>

\* Index.GetInfo on the opened index
IdxGetInfo ==
    /\ idxPC = "open"
    /\ \E id \in IdxIDs \cup { << "0", "2" >> } :
           idxQuery' = [op |-> "GetInfo", id |-> id, res |-> GetInfo(idxIndex, id)]
    /\ idxPC' = "queried"
    /\ UNCHANGED << idxBuilder, idxIndex >>

\* iterateIDRange on the opened index
IdxIterate ==
    /\ idxPC = "open"
    /\ \E r \in Ranges :
           idxQuery' = [op |-> "Iterate", r |-> r, res |-> Iterate(idxIndex, r)]
    /\ idxPC' = "queried"
    /\ UNCHANGED << idxBuilder, idxIndex >>

NextIdx ==
    \/ BuilderAdd /\ UNCHANGED << gcVars, mrgVars, cciVars, dmbVars, uplVars, csiVars, revVars, dirVars, cpVars, repVars, wlkVars, bgVars >>
    \/ IdxBuildOpen /\ UNCHANGED << gcVars, mrgVars, cciVars, dmbVars, uplVars, csiVars, revVars, dirVars, cpVars, repVars, wlkVars, bgVars >>
    \/ IdxGetInfo /\ UNCHANGED << gcVars, mrgVars, cciVars, dmbVars, uplVars, csiVars, revVars, dirVars, cpVars, repVars, wlkVars, bgVars >>
    \/ IdxIterate /\ UNCHANGED << gcVars, mrgVars, cciVars, dmbVars, uplVars, csiVars, revVars, dirVars, cpVars, repVars, wlkVars, bgVars >>

SpecIdx == InitIdx /\ [][NextIdx]_vars

(***************************************************************************)
(* Merged index: a list of pack indexes queried as one                     *)
(***************************************************************************)
MaxIndexes == 3

\* contentInfoGreaterThan: the later timestamp, then the entry that is not
\* deleted, then the greater pack blob ID
contentInfoGreaterThan(a, b) ==
    IF a.ts # b.ts THEN a.ts > b.ts
    ELSE IF a.deleted # b.deleted THEN ~a.deleted
    ELSE StrLess(b.pack, a.pack)

\* Merged.GetInfo, the loop over the indexes from index i with the best
\* info so far
RECURSIVE MergedGetInfoFrom(_, _, _, _)
MergedGetInfoFrom(m, contentID, i, best) ==
    IF i > Len(m) THEN best
    ELSE LET r == GetInfo(m[i], contentID) IN
         IF r.err # "" THEN [err |-> r.err, found |-> FALSE]
         ELSE IF r.found /\ (~best.found \/ contentInfoGreaterThan(r.info, best.info))
              THEN MergedGetInfoFrom(m, contentID, i + 1, r)
              ELSE MergedGetInfoFrom(m, contentID, i + 1, best)

\* Merged.GetInfo
MergedGetInfo(m, contentID) ==
    MergedGetInfoFrom(m, contentID, 1, [err |-> "", found |-> FALSE])

\* Merged.Iterate, the loop that takes the entries of the indexes in
\* ascending order of content ID: streams holds what each index has still to
\* give, pending the best info of the current ID, out what cb was given
RECURSIVE MergeStreams(_, _, _)
MergeStreams(streams, pending, out) ==
    LET live == { i \in 1..Len(streams) : streams[i] # << >> } IN
    IF live = {} THEN out \o pending
    ELSE LET i == CHOOSE k \in live : \A j \in live :
                      \/ StrLess(Head(streams[k]).id, Head(streams[j]).id)
                      \/ Head(streams[k]).id = Head(streams[j]).id /\ k <= j
             min == Head(streams[i])
             rest == [streams EXCEPT ![i] = Tail(streams[i])]
         IN IF pending = << >> THEN MergeStreams(rest, << min >>, out)
            ELSE IF pending[1].id # min.id
                 THEN MergeStreams(rest, << min >>, out \o pending)
            ELSE IF contentInfoGreaterThan(min, pending[1])
                 THEN MergeStreams(rest, << min >>, out)
            ELSE MergeStreams(rest, pending, out)

\* Merged.Iterate with a callback that records what it is given
MergedIterate(m, r) ==
    MergeStreams([i \in 1..Len(m) |-> Iterate(m[i], r)], << >>, << >>)

\* the content IDs of the merged indexes and the ID looked up in vain
MrgIDs == { << "a", "0" >>, << "d", "1" >>, << "k", "0", "1" >> }
MrgProbeIDs == MrgIDs \cup { << "b", "0" >> }

\* InfoStruct with the fields the tests set; the offset tells the packs apart
MrgInfo(id, ts, pack, deleted) ==
    [id |-> id, ts |-> ts, pack |-> pack, offset |-> 11 * Rank(pack[1]),
     olen |-> 0, plen |-> 0, deleted |-> deleted,
     fmt |-> [compressionHeaderID |-> 0, formatVersion |-> 0, encryptionKeyID |-> 0]]

\* the infos a0 is added with: the four that tell the rules of precedence
\* apart
MrgInfosFor(id) ==
    { MrgInfo(id, 1, << "x", "x" >>, FALSE),
      MrgInfo(id, 1, << "y", "y" >>, FALSE),
      MrgInfo(id, 1, << "z", "z" >>, TRUE),
      MrgInfo(id, 2, << "x", "x" >>, TRUE) }

\* the item lists of indexWithItems, as builders: a0 with one of its infos
\* or not at all, with or without d1 and k01
MrgItemSets ==
    LET a0 == << "a", "0" >>
        d1 == << "d", "1" >>
        k01 == << "k", "0", "1" >>
        withA0 == { << >> } \cup { a0 :> it : it \in MrgInfosFor(a0) }
        others == { << >>,
                    (d1 :> MrgInfo(d1, 1, << "x", "x" >>, FALSE))
                    @@ (k01 :> MrgInfo(k01, 1, << "x", "x" >>, FALSE)) }
    IN { b \in { a @@ o : a \in withA0, o \in others } : DOMAIN b # {} }

MrgRanges ==
    { AllIDs, AllNonPrefixedIDs, AllPrefixedIDs, PrefixRange(<< "d" >>),
      [StartID |-> << "a", "0" >>, EndID |-> << "k", "0", "1" >>],
      [StartID |-> << "a", "1" >>, EndID |-> << "d", "1" >>] }

InitMrg ==
    /\ mrgPC = "building"
    /\ mrgItems = << >>
    /\ mrgIndexes = << >>
    /\ mrgQuery = NoQuery
    /\ GCIdle
    /\ IdxIdle
    /\ CciIdle
    /\ DmbIdle
    /\ UplIdle
    /\ CsiIdle
    /\ RevIdle
    /\ DirIdle
    /\ CpIdle
    /\ RepIdle
    /\ WlkIdle
    /\ BgIdle

\* indexWithItems(items...), the index appended to the Merged under test
indexWithItems ==
    /\ mrgPC = "building"
    /\ Len(mrgIndexes) < MaxIndexes
    /\ \E b \in MrgItemSets :
           /\ mrgItems' = Append(mrgItems, b)
           /\ mrgIndexes' = Append(mrgIndexes, BuildAndOpen(b))
    /\ UNCHANGED << mrgPC, mrgQuery >>

\* m.GetInfo(id) for m == Merged{i1, i2, ...}
MrgGetInfo ==
    /\ mrgPC = "building"
    /\ \E id \in MrgProbeIDs :
           mrgQuery' = [op |-> "GetInfo", id |-> id, res |-> MergedGetInfo(mrgIndexes, id)]
    /\ mrgPC' = "queried"
    /\ UNCHANGED << mrgItems, mrgIndexes >>

\* iterateIDRange(t, m, r) for m == Merged{i1, i2, ...}
MrgIterate ==
    /\ mrgPC = "building"
    /\ \E r \in MrgRanges :
           mrgQuery' = [op |-> "MergedIterate", r |-> r, res |-> MergedIterate(mrgIndexes, r)]
    /\ mrgPC' = "queried"
    /\ UNCHANGED << mrgItems, mrgIndexes >>

\* iterateIDRange(t, m, r) for the pack index built last
MrgIndexIterate ==
    /\ mrgPC = "building"
    /\ Len(mrgIndexes) > 0
    /\ \E r \in MrgRanges :
           mrgQuery' = [op |-> "Iterate", ndx |-> Len(mrgIndexes), r |-> r,
                        res |-> Iterate(mrgIndexes[Len(mrgIndexes)], r)]
    /\ mrgPC' = "queried"
    /\ UNCHANGED << mrgItems, mrgIndexes >>

NextMrg ==
    \/ indexWithItems /\ UNCHANGED << gcVars, idxVars, cciVars, dmbVars, uplVars, csiVars, revVars, dirVars, cpVars, repVars, wlkVars, bgVars >>
    \/ MrgGetInfo /\ UNCHANGED << gcVars, idxVars, cciVars, dmbVars, uplVars, csiVars, revVars, dirVars, cpVars, repVars, wlkVars, bgVars >>
    \/ MrgIterate /\ UNCHANGED << gcVars, idxVars, cciVars, dmbVars, uplVars, csiVars, revVars, dirVars, cpVars, repVars, wlkVars, bgVars >>
    \/ MrgIndexIterate /\ UNCHANGED << gcVars, idxVars, cciVars, dmbVars, uplVars, csiVars, revVars, dirVars, cpVars, repVars, wlkVars, bgVars >>

SpecMrg == InitMrg /\ [][NextMrg]_vars

(***************************************************************************)
(* Claims about the pack index and the merged index                        *)
(***************************************************************************)

\* the builder holds at least one info, every info is within the limits of
\* the format, and all content IDs have keys of one length
WithinFormatLimits(b) ==
    /\ DOMAIN b # {}
    /\ \A id \in DOMAIN b :
           /\ b[id].olen < v2MaxContentLength
           /\ b[id].plen < v2MaxContentLength
           /\ b[id].offset < v2MaxPackOffset
    /\ \A id1, id2 \in DOMAIN b :
           Len(contentIDToBytes(id1)) = Len(contentIDToBytes(id2))

\* what C6 says of the infos of the builder: the index is built and opened,
\* and GetInfo of the ID of an info returns that info, field by field
RoundTripOfAdded ==
    /\ idxPC = "queried" => idxIndex.err = ""
    /\ (idxQuery.op = "GetInfo" /\ idxQuery.id \in DOMAIN idxBuilder) =>
           /\ idxQuery.res.err = ""
           /\ idxQuery.res.found
           /\ idxQuery.res.info.id = idxBuilder[idxQuery.id].id
           /\ idxQuery.res.info.ts = idxBuilder[idxQuery.id].ts
           /\ idxQuery.res.info.pack = idxBuilder[idxQuery.id].pack
           /\ idxQuery.res.info.offset = idxBuilder[idxQuery.id].offset
           /\ idxQuery.res.info.olen = idxBuilder[idxQuery.id].olen
           /\ idxQuery.res.info.plen = idxBuilder[idxQuery.id].plen
           /\ idxQuery.res.info.deleted = idxBuilder[idxQuery.id].deleted
           /\ idxQuery.res.info.fmt = idxBuilder[idxQuery.id].fmt

\* C6 as stated: a pack index built from infos within the format limits and
\* opened returns every info on GetInfo of its ID, and returns no info and
\* no error on GetInfo of any ID that was not added.
C6_RoundTripAnyOtherID ==
    (idxPC \in { "failed", "queried" } /\ WithinFormatLimits(idxBuilder)) =>
        /\ idxPC = "queried"
        /\ RoundTripOfAdded
        /\ (idxQuery.op = "GetInfo" /\ idxQuery.id \notin DOMAIN idxBuilder) =>
               (~idxQuery.res.found /\ idxQuery.res.err = "")

\* C6: a pack index built from infos within the format limits and opened
\* returns every info on GetInfo of its ID; GetInfo of an ID that was not
\* added returns no info, and no error when the key of the ID is as long as
\* the keys of the index, an error when it is not.
C6_RoundTrip ==
    (idxPC \in { "failed", "queried" } /\ WithinFormatLimits(idxBuilder)) =>
        /\ idxPC = "queried"
        /\ RoundTripOfAdded
        /\ (idxQuery.op = "GetInfo" /\ idxQuery.id \notin DOMAIN idxBuilder) =>
               /\ ~idxQuery.res.found
               /\ idxQuery.res.err = "" <=>
                      Len(contentIDToBytes(idxQuery.id)) = idxIndex.hdr.keySize

\* an index of three infos, two formats, a length that needs the high
\* bits, and the lookup of a deleted info of it
C6_Witness ==
    /\ idxPC = "queried"
    /\ WithinFormatLimits(idxBuilder)
    /\ Cardinality(DOMAIN idxBuilder) = 3
    /\ Len(idxIndex.formats) = 2
    /\ \E id \in DOMAIN idxBuilder : idxBuilder[id].plen >= v2MaxShortContentLength
    /\ idxQuery.op = "GetInfo"
    /\ idxQuery.id \in DOMAIN idxBuilder
    /\ idxQuery.res.found
    /\ idxQuery.res.info.deleted
    /\ idxQuery.res.info = idxBuilder[idxQuery.id]

\* the infos the indexes of the Merged were built with for a content ID
MrgEntries(id) ==
    { mrgItems[i][id] : i \in { k \in 1..Len(mrgItems) : id \in DOMAIN mrgItems[k] } }

\* e is the entry of S that the rules of precedence name: every other entry
\* is older, or as old and deleted where e is not, or as old, deleted alike
\* and of a lesser pack blob ID
IsWinner(e, S) ==
    /\ e \in S
    /\ \A o \in S \ { e } :
           \/ o.ts < e.ts
           \/ o.ts = e.ts /\ o.deleted /\ ~e.deleted
           \/ o.ts = e.ts /\ o.deleted = e.deleted /\ StrLess(o.pack, e.pack)

\* C5: Merged.GetInfo(k) returns, of the entries the underlying indexes hold
\* for k, the one with the greatest timestamp, among those the one that is
\* not deleted, among those the one with the greatest pack blob ID.  The
\* entry is named from the set of the entries, and the Merged is reached in
\* every order of its indexes, so the result is the same in every order.
C5_Precedence ==
    mrgQuery.op = "GetInfo" =>
        /\ mrgQuery.res.err = ""
        /\ mrgQuery.res.found <=> MrgEntries(mrgQuery.id) # {}
        /\ mrgQuery.res.found => IsWinner(mrgQuery.res.info, MrgEntries(mrgQuery.id))

\* three indexes hold a0 with the same timestamp, live in xx, live in yy and
\* deleted in zz, and the last index holds the deleted one: yy is returned
C5_Witness ==
    /\ mrgQuery.op = "GetInfo"
    /\ mrgQuery.id = << "a", "0" >>
    /\ Len(mrgItems) = 3
    /\ Cardinality(MrgEntries(mrgQuery.id)) = 3
    /\ \A e \in MrgEntries(mrgQuery.id) : e.ts = 1
    /\ mrgItems[3][mrgQuery.id].deleted
    /\ mrgQuery.res.found
    /\ mrgQuery.res.info.pack = << "y", "y" >>

\* the content IDs an Iterate call is to yield: those of the index (of all
\* the indexes, for the Merged) within the range
IterateSource ==
    IF mrgQuery.op = "Iterate" THEN DOMAIN mrgItems[mrgQuery.ndx]
    ELSE UNION { DOMAIN mrgItems[i] : i \in 1..Len(mrgItems) }

\* C7: Iterate over the range [a, b), on a pack index and on a merged index,
\* hands cb exactly the IDs of the index with a <= id < b, in strictly
\* ascending order.
C7_IterateRange ==
    mrgQuery.op \in { "Iterate", "MergedIterate" } =>
        /\ \A i, j \in 1..Len(mrgQuery.res) :
               i < j => StrLess(mrgQuery.res[i].id, mrgQuery.res[j].id)
        /\ { mrgQuery.res[i].id : i \in 1..Len(mrgQuery.res) }
               = { id \in IterateSource :
                       /\ ~StrLess(id, mrgQuery.r.StartID)
                       /\ StrLess(id, mrgQuery.r.EndID) }

\* a merged index of three indexes that hold a0, d1 and k01 is iterated from
\* a0 to k01: a0 and d1 are yielded, k01, the end of the range, is not
C7_Witness ==
    /\ mrgQuery.op = "MergedIterate"
    /\ Len(mrgItems) = 3
    /\ mrgQuery.r = [StartID |-> << "a", "0" >>, EndID |-> << "k", "0", "1" >>]
    /\ IterateSource = MrgIDs
    /\ Len(mrgQuery.res) = 2
    /\ mrgQuery.res[1].id = << "a", "0" >>
    /\ mrgQuery.res[2].id = << "d", "1" >>

\* C8: Merged.Iterate hands cb every content ID at most once, and the info
\* it hands over for an ID is the one Merged.GetInfo returns for it, the
\* entry the rules of precedence name.
C8_IterateOnceWithWinner ==
    mrgQuery.op = "MergedIterate" =>
        /\ \A i, j \in 1..Len(mrgQuery.res) :
               i # j => mrgQuery.res[i].id # mrgQuery.res[j].id
        /\ \A i \in 1..Len(mrgQuery.res) :
               /\ MergedGetInfo(mrgIndexes, mrgQuery.res[i].id)
                      = [err |-> "", found |-> TRUE, info |-> mrgQuery.res[i]]
               /\ IsWinner(mrgQuery.res[i], MrgEntries(mrgQuery.res[i].id))

\* a0 is live in one index and deleted, with the same timestamp and a
\* greater pack blob ID, in two others: Iterate yields it once, live
C8_Witness ==
    /\ mrgQuery.op = "MergedIterate"
    /\ mrgQuery.r = AllIDs
    /\ Len(mrgItems) = 3
    /\ \A i \in 1..3 : << "a", "0" >> \in DOMAIN mrgItems[i]
    /\ mrgItems[1][<< "a", "0" >>].deleted
    /\ ~mrgItems[2][<< "a", "0" >>].deleted
    /\ mrgItems[3][<< "a", "0" >>].deleted
    /\ \A e \in MrgEntries(<< "a", "0" >>) : e.ts = 1
    /\ Len(mrgQuery.res) = 3
    /\ mrgQuery.res[1].id = << "a", "0" >>
    /\ ~mrgQuery.res[1].deleted

(***************************************************************************)
(* Committed content index                                                 *)
(***************************************************************************)
MaxRev == 3
smallIndexEntryCountThreshold == 100

\* the index blobs of the repository
IndexBlobIDs == { "n1", "n2", "n3" }

\* the infos of each index blob; the timestamps are 1 and later, the zero
\* time.Time of a new committedContentIndex is 0
IndexBlobItems(blobID) ==
    LET a0 == << "a", "0" >>
        d1 == << "d", "1" >>
        k01 == << "k", "0", "1" >>
    IN CASE blobID = "n1" ->
              (a0 :> MrgInfo(a0, 1, << "x", "x" >>, FALSE))
              @@ (d1 :> MrgInfo(d1, 1, << "x", "x" >>, TRUE))
         [] blobID = "n2" ->
              (a0 :> MrgInfo(a0, 2, << "y", "y" >>, TRUE))
              @@ (k01 :> MrgInfo(k01, 2, << "y", "y" >>, TRUE))
         [] blobID = "n3" ->
              (d1 :> MrgInfo(d1, 3, << "z", "z" >>, TRUE))

\* the lists of index blob IDs given to use: each blob at most once, in
\* either order for two blobs
IndexFileLists ==
    { << >>, << "n1", "n2", "n3" >> }
    \cup { << x >> : x \in IndexBlobIDs }
    \cup { l \in { << x, y >> : x \in IndexBlobIDs, y \in IndexBlobIDs } : l[1] # l[2] }

\* the values of ignoreDeletedBefore
Watermarks == { 1, 2 }

\* the elements of a list
Range(l) == { l[i] : i \in 1..Len(l) }

\* newCommittedContentIndex, with an empty cache
InitCci ==
    /\ cciPC = "run"
    /\ cciCache = {}
    /\ cciInUse = << >>
    /\ cciMerged = << >>
    /\ cciWatermark = 0
    /\ cciRev = 0
    /\ cciQuery = NoQuery
    /\ cciOpenReaders = {}
    /\ cciCalls = << >>
    /\ GCIdle
    /\ IdxIdle
    /\ MrgIdle
    /\ DmbIdle
    /\ UplIdle
    /\ CsiIdle
    /\ RevIdle
    /\ DirIdle
    /\ CpIdle
    /\ RepIdle
    /\ WlkIdle
    /\ BgIdle

\* the index blobs, opened
OpenedIndexBlobs == [blobID \in IndexBlobIDs |-> BuildAndOpen(IndexBlobItems(blobID))]

\* committedContentIndexCache.openIndex: the index of a blob of the cache,
\* unless it is one the cache fails to read
openIndex(cache, indexBlob, unreadable) ==
    IF indexBlob \in cache /\ indexBlob \notin unreadable
    THEN OpenedIndexBlobs[indexBlob]
    ELSE [err |-> "unable to open pack index"]

\* a mutant of shouldIgnore: a deleted entry as old as the watermark is kept
shouldIgnoreBefore(id, deletionWatermark) ==
    IF ~id.deleted THEN FALSE ELSE id.ts < deletionWatermark

\* shouldIgnore
shouldIgnore(id, deletionWatermark) ==
    IF ~id.deleted THEN FALSE ELSE ~(id.ts > deletionWatermark)

\* committedContentIndex.getContent
getContent(merged, deletionWatermark, contentID) ==
    LET r == MergedGetInfo(merged, contentID) IN
    IF r.found
    THEN IF shouldIgnore(r.info, deletionWatermark)
         THEN [err |-> "ErrContentNotFound", found |-> FALSE]
         ELSE [err |-> "", found |-> TRUE, info |-> r.info]
    ELSE IF r.err = "" THEN [err |-> "ErrContentNotFound", found |-> FALSE]
    ELSE [err |-> "error getting content info from index", found |-> FALSE]

\* the callback listContents gives to Iterate, applied to what Iterate yields
RECURSIVE listContentsCallback(_, _)
listContentsCallback(seq, deletionWatermark) ==
    IF seq = << >> THEN << >>
    ELSE IF shouldIgnore(Head(seq), deletionWatermark)
         THEN listContentsCallback(Tail(seq), deletionWatermark)
         ELSE << Head(seq) >> \o listContentsCallback(Tail(seq), deletionWatermark)

\* committedContentIndex.listContents with a callback that records
listContents(merged, deletionWatermark, r) ==
    listContentsCallback(MergedIterate(merged, r), deletionWatermark)

\* a mutant of indexFilesChanged: only the lengths are compared
indexFilesChangedLengthOnly(indexFiles, inUse) ==
    Len(indexFiles) # Cardinality(DOMAIN inUse)

\* committedContentIndex.indexFilesChanged
indexFilesChanged(indexFiles, inUse) ==
    IF Len(indexFiles) # Cardinality(DOMAIN inUse) THEN TRUE
    ELSE \E i \in 1..Len(indexFiles) : indexFiles[i] \notin DOMAIN inUse

\* a mutant of Add: the info that is added last stays
AddLast(b, i) == (i.id :> i) @@ b

\* Builder.Add: the info is added unless the builder holds a greater one
\* for its content ID
Add(b, i) ==
    IF i.id \notin DOMAIN b \/ contentInfoGreaterThan(i, b[i.id])
    THEN (i.id :> i) @@ b ELSE b

RECURSIVE AddAll(_, _)
AddAll(b, infos) ==
    IF infos = << >> THEN b ELSE AddAll(Add(b, Head(infos)), Tail(infos))

\* combineSmallIndexes, the loop that adds the entries of the indexes of
\* toMerge to the builder
RECURSIVE AddIndexes(_, _)
AddIndexes(b, toMerge) ==
    IF toMerge = << >> THEN b
    ELSE AddIndexes(AddAll(b, Iterate(Head(toMerge), AllIDs)), Tail(toMerge))

\* indexV2.ApproximateCount
ApproximateCount(b) == b.hdr.entryCount

\* a mutant of combineSmallIndexes: one small index is combined as well
combineSmallIndexesOfOne(m) ==
    LET IsSmall(ndx) == ApproximateCount(ndx) < smallIndexEntryCountThreshold
        IsLarge(ndx) == ~IsSmall(ndx)
        toMerge == SelectSeq(m, IsSmall)
        toKeep == SelectSeq(m, IsLarge)
        combined == BuildAndOpen(AddIndexes(<< >>, toMerge))
    IN IF Len(toMerge) < 1 THEN [err |-> "", merged |-> m]
       ELSE IF combined.err # ""
            THEN [err |-> "error building combined in-memory index", merged |-> << >>]
       ELSE [err |-> "", merged |-> Append(toKeep, combined)]

\* committedContentIndex.combineSmallIndexes
combineSmallIndexes(m) ==
    LET IsSmall(ndx) == ApproximateCount(ndx) < smallIndexEntryCountThreshold
        IsLarge(ndx) == ~IsSmall(ndx)
        toMerge == SelectSeq(m, IsSmall)
        toKeep == SelectSeq(m, IsLarge)
        combined == BuildAndOpen(AddIndexes(<< >>, toMerge))
    IN IF Len(toMerge) <= 1 THEN [err |-> "", merged |-> m]
       ELSE IF combined.err # ""
            THEN [err |-> "error building combined in-memory index", merged |-> << >>]
       ELSE [err |-> "", merged |-> Append(toKeep, combined)]

\* committedContentIndex.merge; on an error the result names the index
\* blobs whose readers it had opened: the deferred merged.Close() runs after
\* "return nil, nil, err" has set merged to nil, so it closes none of them
merge(cache, indexFiles, unreadable) ==
    LET Merged(opened, mergedAndCombined) ==
            IF \E i \in 1..Len(opened) : opened[i].err # ""
            THEN [err |-> "unable to open pack index",
                  opened |-> { indexFiles[i] : i \in { k \in 1..Len(opened) :
                                   \A j \in 1..k : opened[j].err = "" } }]
            ELSE IF mergedAndCombined.err # ""
                 THEN [err |-> "unable to combine small indexes",
                       opened |-> Range(indexFiles)]
            ELSE [err |-> "",
                  merged |-> mergedAndCombined.merged,
                  used |-> [e \in Range(indexFiles) |->
                               opened[CHOOSE i \in 1..Len(indexFiles) :
                                          /\ indexFiles[i] = e
                                          /\ \A j \in (i + 1)..Len(indexFiles) :
                                                 indexFiles[j] # e]]]
        Opened == [i \in 1..Len(indexFiles) |-> openIndex(cache, indexFiles[i], unreadable)]
    IN Merged(Opened, combineSmallIndexes(Opened))

\* committedContentIndexCache.expireUnused: blobs that are not in used may
\* leave the cache
ExpireUnused(cache, used) == { cache \ gone : gone \in SUBSET (cache \ used) }

\* use, the assignment c.inUse = newInUse: the readers c.inUse held are
\* referred to by nothing any more and no Close is called on them; the
\* readers merge opened are the ones c.inUse holds now
ReplaceReaders(readers, newInUse) ==
    { << r[1], "dropped" >> : r \in readers } \cup { << b, "inUse" >> : b \in newInUse }

\* committedContentIndex.addIndexBlob(ctx, indexBlobID, data, use)
CciAddIndexBlob ==
    /\ cciPC = "run"
    /\ cciRev < MaxRev
    /\ \E indexBlobID \in IndexBlobIDs, use \in BOOLEAN, cacheOK \in BOOLEAN,
          unreadable \in { {}, { "n2" } } :
         LET ndx == openIndex(cciCache \cup { indexBlobID }, indexBlobID, unreadable) IN
         /\ cciRev' = cciRev + 1
         /\ IF ~cacheOK
            THEN /\ cciQuery' = [op |-> "addIndexBlob", blob |-> indexBlobID, use |-> use,
                                 err |-> "error adding content to cache"]
                 /\ UNCHANGED << cciCache, cciInUse, cciMerged, cciOpenReaders >>
            ELSE /\ cciCache' = cciCache \cup { indexBlobID }
                 /\ IF ~use \/ indexBlobID \in DOMAIN cciInUse
                    THEN /\ cciQuery' = [op |-> "addIndexBlob", blob |-> indexBlobID,
                                         use |-> use, err |-> ""]
                         /\ UNCHANGED << cciInUse, cciMerged, cciOpenReaders >>
                    ELSE IF ndx.err # ""
                    THEN /\ cciQuery' = [op |-> "addIndexBlob", blob |-> indexBlobID,
                                         use |-> use, err |-> "unable to open pack index"]
                         /\ UNCHANGED << cciInUse, cciMerged, cciOpenReaders >>
                    ELSE /\ cciQuery' = [op |-> "addIndexBlob", blob |-> indexBlobID,
                                         use |-> use, err |-> ""]
                         /\ cciInUse' = (indexBlobID :> ndx) @@ cciInUse
                         /\ cciMerged' = Append(cciMerged, ndx)
                         /\ cciOpenReaders' = cciOpenReaders \cup { << indexBlobID, "inUse" >> }
    /\ UNCHANGED << cciPC, cciWatermark, cciCalls >>

\* committedContentIndex.use(ctx, indexFiles, ignoreDeletedBefore);
\* unreadable holds the index blob the cache fails to open, if any
Use(indexFiles, unreadable, ignoreDeletedBefore) ==
    /\ cciPC = "run"
    /\ LET Apply(changed, m) ==
               /\ (changed /\ m.err = "") => cciRev < MaxRev
               /\ cciWatermark' = ignoreDeletedBefore
               /\ IF ~changed
                  THEN /\ cciQuery' = [op |-> "use", indexFiles |-> indexFiles,
                                       w |-> ignoreDeletedBefore, changed |-> FALSE,
                                       err |-> ""]
                       /\ UNCHANGED << cciCache, cciInUse, cciMerged, cciRev,
                                       cciOpenReaders >>
                  ELSE IF m.err # ""
                  THEN /\ cciQuery' = [op |-> "use", indexFiles |-> indexFiles,
                                       w |-> ignoreDeletedBefore, changed |-> TRUE,
                                       err |-> m.err]
                       /\ cciOpenReaders' = cciOpenReaders \cup
                              { << b, "dropped" >> : b \in m.opened }
                       /\ UNCHANGED << cciCache, cciInUse, cciMerged, cciRev >>
                  ELSE /\ cciQuery' = [op |-> "use", indexFiles |-> indexFiles,
                                       w |-> ignoreDeletedBefore, changed |-> TRUE,
                                       err |-> ""]
                       /\ cciRev' = cciRev + 1
                       /\ cciMerged' = m.merged
                       /\ cciInUse' = m.used
                       /\ cciCache' \in ExpireUnused(cciCache, Range(indexFiles))
                       /\ cciOpenReaders' = ReplaceReaders(cciOpenReaders, DOMAIN m.used)
       IN Apply(indexFilesChanged(indexFiles, cciInUse),
              merge(cciCache, indexFiles, unreadable))
    /\ UNCHANGED << cciPC, cciCalls >>

\* use, for every list of index blobs, watermark and unreadable blob
CciUse ==
    \E indexFiles \in IndexFileLists :
    \E unreadable \in { {}, { "n2" } } :
    \E ignoreDeletedBefore \in Watermarks :
        Use(indexFiles, unreadable, ignoreDeletedBefore)

\* committedContentIndex.getContent(contentID)
CciGetContent ==
    /\ cciPC = "run"
    /\ \E contentID \in MrgProbeIDs :
           cciQuery' = [op |-> "getContent", id |-> contentID,
                        res |-> getContent(cciMerged, cciWatermark, contentID)]
    /\ cciPC' = "queried"
    /\ UNCHANGED << cciCache, cciInUse, cciMerged, cciWatermark, cciRev,
                    cciOpenReaders, cciCalls >>

\* committedContentIndex.listContents(r, cb)
CciListContents ==
    /\ cciPC = "run"
    /\ \E r \in { AllIDs, AllNonPrefixedIDs, AllPrefixedIDs } :
           cciQuery' = [op |-> "listContents", r |-> r,
                        res |-> listContents(cciMerged, cciWatermark, r)]
    /\ cciPC' = "queried"
    /\ UNCHANGED << cciCache, cciInUse, cciMerged, cciWatermark, cciRev,
                    cciOpenReaders, cciCalls >>

\* committedContentIndex.close: Close on the readers of c.inUse, in the
\* order of the map, up to the first Close that fails
CciClose ==
    /\ cciPC = "run"
    /\ \E closed \in SUBSET DOMAIN cciInUse :
           /\ cciOpenReaders' = cciOpenReaders \ { << b, "inUse" >> : b \in closed }
           /\ cciQuery' = [op |-> "close",
                           err |-> IF closed = DOMAIN cciInUse THEN ""
                                   ELSE "unable to close index"]
    /\ cciPC' = "closed"
    /\ UNCHANGED << cciCache, cciInUse, cciMerged, cciWatermark, cciRev, cciCalls >>

NextCci ==
    \/ CciAddIndexBlob /\ UNCHANGED << gcVars, idxVars, mrgVars, dmbVars, uplVars, csiVars, revVars, dirVars, cpVars, repVars, wlkVars, bgVars >>
    \/ CciUse /\ UNCHANGED << gcVars, idxVars, mrgVars, dmbVars, uplVars, csiVars, revVars, dirVars, cpVars, repVars, wlkVars, bgVars >>
    \/ CciGetContent /\ UNCHANGED << gcVars, idxVars, mrgVars, dmbVars, uplVars, csiVars, revVars, dirVars, cpVars, repVars, wlkVars, bgVars >>
    \/ CciListContents /\ UNCHANGED << gcVars, idxVars, mrgVars, dmbVars, uplVars, csiVars, revVars, dirVars, cpVars, repVars, wlkVars, bgVars >>
    \/ CciClose /\ UNCHANGED << gcVars, idxVars, mrgVars, dmbVars, uplVars, csiVars, revVars, dirVars, cpVars, repVars, wlkVars, bgVars >>

SpecCCI == InitCci /\ [][NextCci]_vars

(***************************************************************************)
(* Claims about the committed content index                                *)
(***************************************************************************)

\* the entry of the merged index is hidden by the deletion watermark
HiddenByWatermark(e) == e.deleted /\ e.ts <= cciWatermark
VisibleEntry(e) == ~HiddenByWatermark(e)

\* C9: getContent(id) reports not-found, and listContents does not hand the
\* entry to its callback, exactly when the merged entry of the ID is deleted
\* and its timestamp is at or before deletionWatermark; every other merged
\* entry is returned, and handed to the callback.
C9_WatermarkVisibility ==
    /\ cciQuery.op = "getContent" =>
           LET e == MergedGetInfo(cciMerged, cciQuery.id) IN
           e.found =>
               IF HiddenByWatermark(e.info)
               THEN cciQuery.res = [err |-> "ErrContentNotFound", found |-> FALSE]
               ELSE cciQuery.res = [err |-> "", found |-> TRUE, info |-> e.info]
    /\ cciQuery.op = "listContents" =>
           cciQuery.res = SelectSeq(MergedIterate(cciMerged, cciQuery.r), VisibleEntry)

\* two index blobs are in use and the watermark is 2: a0, deleted at 2 in
\* the merged index, is not found
C9_Witness ==
    /\ cciQuery.op = "getContent"
    /\ cciQuery.id = << "a", "0" >>
    /\ Cardinality(DOMAIN cciInUse) = 2
    /\ MergedGetInfo(cciMerged, cciQuery.id).found
    /\ MergedGetInfo(cciMerged, cciQuery.id).info.deleted
    /\ MergedGetInfo(cciMerged, cciQuery.id).info.ts = cciWatermark
    /\ cciQuery.res.err = "ErrContentNotFound"

FailedUseKeepsActiveSet ==
    [][(cciQuery'.op = "use" /\ cciQuery'.err # "") =>
          /\ cciInUse' = cciInUse
          /\ cciMerged' = cciMerged
          /\ cciRev' = cciRev]_vars

\* C35: a call of use that returns an error leaves inUse, merged, the
\* revision and deletionWatermark as they were before the call.
C35_FailedUseChangesNothing ==
    [][(cciQuery'.op = "use" /\ cciQuery'.err # "") =>
          /\ cciInUse' = cciInUse
          /\ cciMerged' = cciMerged
          /\ cciRev' = cciRev
          /\ cciWatermark' = cciWatermark]_vars

(***************************************************************************)
(* addIndexBlob called concurrently.  A call adds the blob to the cache,   *)
(* runs its locked section under c.mu and, on its way out, adds one to     *)
(* c.rev; use runs wholly under c.mu.                                      *)
(***************************************************************************)

\* the goroutines that call addIndexBlob
Callers == { "t1", "t2" }

\* a mutant of addIndexBlobLocked: the index is appended without looking
\* at c.inUse first
addIndexBlobLockedNoCheck(inUse, merged, indexBlobID, ndx) ==
    IF ndx.err # ""
    THEN [err |-> "unable to open pack index", inUse |-> inUse, merged |-> merged,
          opened |-> FALSE]
    ELSE [err |-> "", inUse |-> (indexBlobID :> ndx) @@ inUse,
          merged |-> Append(merged, ndx), opened |-> TRUE]

\* addIndexBlob from c.mu.Lock() to the return: the new c.inUse and
\* c.merged, the error, and whether a reader was opened
addIndexBlobLocked(inUse, merged, indexBlobID, ndx) ==
    IF indexBlobID \in DOMAIN inUse
    THEN [err |-> "", inUse |-> inUse, merged |-> merged, opened |-> FALSE]
    ELSE IF ndx.err # ""
    THEN [err |-> "unable to open pack index", inUse |-> inUse, merged |-> merged,
          opened |-> FALSE]
    ELSE [err |-> "", inUse |-> (indexBlobID :> ndx) @@ inUse,
          merged |-> Append(merged, ndx), opened |-> TRUE]

\* addIndexBlob up to "if !use": the defer is registered and
\* addContentToCache is called
AddIndexBlobEnter(t) ==
    /\ cciPC = "run"
    /\ t \notin DOMAIN cciCalls
    /\ cciRev + Cardinality(DOMAIN cciCalls) < MaxRev
    /\ \E indexBlobID \in IndexBlobIDs, use \in BOOLEAN, cacheOK \in BOOLEAN :
           /\ cciCache' = IF cacheOK THEN cciCache \cup { indexBlobID } ELSE cciCache
           /\ cciCalls' = (t :> [blob |-> indexBlobID, use |-> use,
                                 pc |-> IF cacheOK /\ use THEN "lock" ELSE "return",
                                 err |-> IF cacheOK THEN ""
                                         ELSE "error adding content to cache"])
                           @@ cciCalls
    /\ UNCHANGED << cciPC, cciInUse, cciMerged, cciWatermark, cciRev, cciQuery,
                    cciOpenReaders >>

\* addIndexBlob from c.mu.Lock() to the return statement
AddIndexBlobLock(t) ==
    /\ t \in DOMAIN cciCalls
    /\ cciCalls[t].pc = "lock"
    /\ \E unreadable \in { {}, { "n2" } } :
         \E res \in { addIndexBlobLocked(cciInUse, cciMerged, cciCalls[t].blob,
                                         openIndex(cciCache, cciCalls[t].blob, unreadable)) } :
           /\ cciInUse' = res.inUse
           /\ cciMerged' = res.merged
           /\ cciOpenReaders' = IF res.opened
                                THEN cciOpenReaders \cup { << cciCalls[t].blob, "inUse" >> }
                                ELSE cciOpenReaders
           /\ cciCalls' = [cciCalls EXCEPT ![t].pc = "return", ![t].err = res.err]
    /\ UNCHANGED << cciPC, cciCache, cciWatermark, cciRev, cciQuery >>

\* a mutant of AddIndexBlobReturn: a call that failed leaves c.rev alone
AddIndexBlobReturnCountsSuccess(t) ==
    /\ t \in DOMAIN cciCalls
    /\ cciCalls[t].pc = "return"
    /\ cciRev' = IF cciCalls[t].err = "" THEN cciRev + 1 ELSE cciRev
    /\ cciQuery' = [op |-> "addIndexBlob", blob |-> cciCalls[t].blob,
                    use |-> cciCalls[t].use, err |-> cciCalls[t].err]
    /\ cciCalls' = [c \in DOMAIN cciCalls \ { t } |-> cciCalls[c]]
    /\ UNCHANGED << cciPC, cciCache, cciInUse, cciMerged, cciWatermark, cciOpenReaders >>

\* addIndexBlob returns: the deferred atomic.AddInt64(&c.rev, 1) runs
AddIndexBlobReturn(t) ==
    /\ t \in DOMAIN cciCalls
    /\ cciCalls[t].pc = "return"
    /\ cciRev' = cciRev + 1
    /\ cciQuery' = [op |-> "addIndexBlob", blob |-> cciCalls[t].blob,
                    use |-> cciCalls[t].use, err |-> cciCalls[t].err]
    /\ cciCalls' = [c \in DOMAIN cciCalls \ { t } |-> cciCalls[c]]
    /\ UNCHANGED << cciPC, cciCache, cciInUse, cciMerged, cciWatermark, cciOpenReaders >>

NextCciCalls ==
    \/ \E t \in Callers : AddIndexBlobEnter(t) /\ UNCHANGED << gcVars, idxVars, mrgVars, dmbVars, uplVars, csiVars, revVars, dirVars, cpVars, repVars, wlkVars, bgVars >>
    \/ \E t \in Callers : AddIndexBlobLock(t) /\ UNCHANGED << gcVars, idxVars, mrgVars, dmbVars, uplVars, csiVars, revVars, dirVars, cpVars, repVars, wlkVars, bgVars >>
    \/ \E t \in Callers : AddIndexBlobReturn(t) /\ UNCHANGED << gcVars, idxVars, mrgVars, dmbVars, uplVars, csiVars, revVars, dirVars, cpVars, repVars, wlkVars, bgVars >>
    \/ \E indexFiles \in { << >>, << "n1", "n2" >> } :
           Use(indexFiles, {}, 1) /\ UNCHANGED << gcVars, idxVars, mrgVars, dmbVars, uplVars, csiVars, revVars, dirVars, cpVars, repVars, wlkVars, bgVars >>

SpecCCICalls == InitCci /\ [][NextCciCalls]_vars

(***************************************************************************)
(* Claims about addIndexBlob, the revision and the readers                 *)
(***************************************************************************)

\* the steps of the addIndexBlob call of t: it is entered, it leaves its
\* locked section, it returns
Entered(t) == t \notin DOMAIN cciCalls /\ t \in DOMAIN cciCalls'
LeftLock(t) ==
    /\ t \in DOMAIN cciCalls /\ cciCalls[t].pc = "lock"
    /\ t \in DOMAIN cciCalls' /\ cciCalls'[t].pc = "return"
Returned(t) == t \in DOMAIN cciCalls /\ t \notin DOMAIN cciCalls'

\* how many times merged holds the index of a blob
TimesIn(merged, blob) ==
    Cardinality({ i \in 1..Len(merged) : merged[i] = OpenedIndexBlobs[blob] })

C12_RevisionCounts ==
    [][/\ cciRev' >= cciRev
       /\ \A t \in Callers :
             /\ Returned(t) => cciRev' = cciRev + 1
             /\ (Entered(t) \/ LeftLock(t)) => cciRev' = cciRev]_vars

\* a call that failed to open the index has returned, after another call
\* and a use, and the revision counts the three
C12_Witness ==
    /\ cciQuery.op = "addIndexBlob"
    /\ cciQuery.err = "unable to open pack index"
    /\ cciRev = 3

\* C13 as stated: when use replaces the active set, every reader that
\* c.inUse held before and that is not a reader of the new active set is
\* closed: after the step none of the blobs that left c.inUse has an open
\* reader.
C13_ReplacedReadersClosed ==
    [][(cciQuery'.op = "use" /\ cciQuery'.err = "" /\ cciQuery'.changed
        /\ cciRev' = cciRev + 1) =>
           \A b \in DOMAIN cciInUse \ DOMAIN cciInUse' :
               << b, "dropped" >> \notin cciOpenReaders']_vars

(***************************************************************************)
(* dirManifestBuilder: the entries and the summary of one directory,       *)
(* filled by concurrent workers under b.mu and turned into a manifest by   *)
(* Build                                                                   *)
(***************************************************************************)

MaxFailedEntriesPerDirectorySummary == 2
MaxAdds == 3
MaxBuilds == 1

\* fs.DirectorySummary; FailedEntries holds the paths of the records
ZeroSummary ==
    [TotalFileCount |-> 0, TotalFileSize |-> 0, TotalDirCount |-> 0,
     TotalSymlinkCount |-> 0, FatalErrorCount |-> 0, IgnoredErrorCount |-> 0,
     MaxModTime |-> 0, FailedEntries |-> << >>, IncompleteReason |-> ""]

\* no summary: de.DirSummary == nil
NilSummary == [nil |-> TRUE]

\* the summary of a child directory: what the Build of the child returned
ChildSummary ==
    [TotalFileCount |-> 1, TotalFileSize |-> 3, TotalDirCount |-> 1,
     TotalSymlinkCount |-> 1, FatalErrorCount |-> 2, IgnoredErrorCount |-> 1,
     MaxModTime |-> 3,
     FailedEntries |-> << << "c", "a" >>, << "c", "x" >>, << "c", "y" >> >>,
     IncompleteReason |-> ""]

\* the snapshot.DirEntry values the workers add
DirEntries ==
    { [Name |-> << "b" >>, Type |-> "f", FileSize |-> 2, ModTime |-> 1,
       DirSummary |-> NilSummary],
      [Name |-> << "a" >>, Type |-> "s", FileSize |-> 0, ModTime |-> 2,
       DirSummary |-> NilSummary],
      [Name |-> << "a" >>, Type |-> "d", FileSize |-> 0, ModTime |-> 0,
       DirSummary |-> NilSummary],
      [Name |-> << "c" >>, Type |-> "d", FileSize |-> 0, ModTime |-> 1,
       DirSummary |-> ChildSummary] }

\* the addEntry and addFailedEntry calls a worker makes
DmbCallsOf ==
    { [op |-> "addEntry", de |-> de] : de \in DirEntries }
    \cup { [op |-> "addFailedEntry", relPath |-> << "z" >>, isIgnoredError |-> TRUE],
           [op |-> "addFailedEntry", relPath |-> << "b" >>, isIgnoredError |-> FALSE] }

\* the goroutines that fill the builder
Workers == { "w1", "w2" }

\* isDir
isDir(e) == e.Type = "d"

\* sort.Slice(seq, less): the elements of seq in the order of less; elements
\* that less does not tell apart keep their order
SortSlice(seq, less(_, _)) ==
    LET place(i) == 1 + Cardinality({ j \in 1..Len(seq) :
                                        \/ less(seq[j], seq[i])
                                        \/ ~less(seq[i], seq[j]) /\ j < i })
    IN [k \in 1..Len(seq) |-> seq[CHOOSE i \in 1..Len(seq) : place(i) = k]]

\* dirManifestBuilder.addEntry, the statements under b.mu
addEntry(b, de) ==
    LET s1 == [b.summary EXCEPT !.MaxModTime = Max(@, de.ModTime)]
        childSummary == de.DirSummary
        s2 == CASE de.Type = "s" ->
                     [s1 EXCEPT !.TotalSymlinkCount = @ + 1]
                 [] de.Type = "f" ->
                     [s1 EXCEPT !.TotalFileCount = @ + 1,
                                !.TotalFileSize = @ + de.FileSize]
                 [] de.Type = "d" /\ childSummary # NilSummary ->
                     [s1 EXCEPT !.TotalFileCount = @ + childSummary.TotalFileCount,
                                !.TotalFileSize = @ + childSummary.TotalFileSize,
                                !.TotalDirCount = @ + childSummary.TotalDirCount,
                                !.FatalErrorCount = @ + childSummary.FatalErrorCount,
                                !.IgnoredErrorCount = @ + childSummary.IgnoredErrorCount,
                                !.FailedEntries = @ \o childSummary.FailedEntries,
                                !.MaxModTime = Max(@, childSummary.MaxModTime)]
                 [] OTHER -> s1
    IN [summary |-> s2, entries |-> Append(b.entries, de)]

\* dirManifestBuilder.addFailedEntry, the statements under b.mu
addFailedEntry(b, relPath, isIgnoredError) ==
    [summary |-> [b.summary EXCEPT
                     !.IgnoredErrorCount = IF isIgnoredError THEN @ + 1 ELSE @,
                     !.FatalErrorCount = IF isIgnoredError THEN @ ELSE @ + 1,
                     !.FailedEntries = Append(@, relPath)],
     entries |-> b.entries]

\* sortedTopFailures: sorted is what the sort leaves in the array the
\* argument points to, top the slice that is returned
sortedTopFailures(entries) ==
    LET sorted == SortSlice(entries, StrLess) IN
    [sorted |-> sorted,
     top |-> IF Len(sorted) > MaxFailedEntriesPerDirectorySummary
             THEN SubSeq(sorted, 1, MaxFailedEntriesPerDirectorySummary)
             ELSE sorted]

\* a mutant of EntryLess: the entries are sorted by name only
EntryLessByName(l, r) == StrLess(l.Name, r.Name)

\* the order Build sorts the entries in
EntryLess(l, r) ==
    IF isDir(l) # isDir(r) THEN isDir(l) ELSE StrLess(l.Name, r.Name)

\* dirManifestBuilder.Build: the builder it leaves and the manifest it
\* returns.  s is a copy of b.summary made before the failed entries are
\* sorted and cut: its FailedEntries slice has the array of
\* b.summary.FailedEntries, which the sort reorders, and its own length,
\* which the cut of b.summary.FailedEntries does not change.
Build(b, dirModTime, incompleteReason) ==
    LET failures == sortedTopFailures(b.summary.FailedEntries)
        entries == SortSlice(b.entries, EntryLess)
        s == [b.summary EXCEPT
                 !.TotalDirCount = @ + 1,
                 !.MaxModTime = IF Len(b.entries) = 0 THEN dirModTime ELSE @,
                 !.IncompleteReason = incompleteReason,
                 !.FailedEntries = failures.sorted]
    IN [b |-> [summary |-> [b.summary EXCEPT !.FailedEntries = failures.top],
               entries |-> entries],
        manifest |-> [Summary |-> s, Entries |-> entries]]

\* newDirManifestBuilder: &dirManifestBuilder{}
InitDmb ==
    /\ dmbMu = ""
    /\ dmbSummary = ZeroSummary
    /\ dmbEntries = << >>
    /\ dmbCalls = << >>
    /\ dmbAdded = << >>
    /\ dmbBuilt = << >>
    /\ GCIdle
    /\ IdxIdle
    /\ MrgIdle
    /\ CciIdle
    /\ UplIdle
    /\ CsiIdle
    /\ RevIdle
    /\ DirIdle
    /\ CpIdle
    /\ RepIdle
    /\ WlkIdle
    /\ BgIdle

\* a mutant of DmbLock: b.mu excludes nobody
DmbLockNoExclusion(w) ==
    /\ w \notin DOMAIN dmbCalls
    /\ Len(dmbAdded) + Cardinality(DOMAIN dmbCalls) < MaxAdds
    /\ \E call \in DmbCallsOf :
           dmbCalls' = (w :> [call |-> call,
                              b |-> [summary |-> dmbSummary, entries |-> dmbEntries]])
                       @@ dmbCalls
    /\ dmbMu' = w
    /\ UNCHANGED << dmbSummary, dmbEntries, dmbAdded, dmbBuilt >>

\* a worker calls addEntry or addFailedEntry: b.mu.Lock() returns, the
\* worker has the builder as it is now
DmbLock(w) ==
    /\ dmbMu = ""
    /\ w \notin DOMAIN dmbCalls
    /\ Len(dmbAdded) + Cardinality(DOMAIN dmbCalls) < MaxAdds
    /\ \E call \in DmbCallsOf :
           dmbCalls' = (w :> [call |-> call,
                              b |-> [summary |-> dmbSummary, entries |-> dmbEntries]])
                       @@ dmbCalls
    /\ dmbMu' = w
    /\ UNCHANGED << dmbSummary, dmbEntries, dmbAdded, dmbBuilt >>

\* the worker has run the statements of its call and returns: the deferred
\* b.mu.Unlock()
DmbUnlock(w) ==
    /\ w \in DOMAIN dmbCalls
    /\ \E res \in { IF dmbCalls[w].call.op = "addEntry"
                     THEN addEntry(dmbCalls[w].b, dmbCalls[w].call.de)
                     ELSE addFailedEntry(dmbCalls[w].b, dmbCalls[w].call.relPath,
                                         dmbCalls[w].call.isIgnoredError) } :
           /\ dmbSummary' = res.summary
           /\ dmbEntries' = res.entries
    /\ dmbAdded' = Append(dmbAdded, dmbCalls[w].call)
    /\ dmbCalls' = [c \in DOMAIN dmbCalls \ { w } |-> dmbCalls[c]]
    /\ dmbMu' = ""
    /\ UNCHANGED dmbBuilt

\* Build(dirModTime, incompleteReason), wholly under b.mu
DmbBuild ==
    /\ dmbMu = ""
    /\ Len(dmbBuilt) < MaxBuilds
    /\ \E incompleteReason \in { "", "canceled" } :
       \E res \in { Build([summary |-> dmbSummary, entries |-> dmbEntries], 4,
                          incompleteReason) } :
           /\ dmbSummary' = res.b.summary
           /\ dmbEntries' = res.b.entries
           /\ dmbBuilt' = Append(dmbBuilt, [manifest |-> res.manifest,
                                            added |-> dmbAdded,
                                            inFlight |-> DOMAIN dmbCalls])
    /\ UNCHANGED << dmbMu, dmbCalls, dmbAdded >>

NextDmb ==
    \/ \E w \in Workers : DmbLock(w) /\ UNCHANGED << gcVars, idxVars, mrgVars, cciVars, uplVars, csiVars, revVars, dirVars, cpVars, repVars, wlkVars, bgVars >>
    \/ \E w \in Workers : DmbUnlock(w) /\ UNCHANGED << gcVars, idxVars, mrgVars, cciVars, uplVars, csiVars, revVars, dirVars, cpVars, repVars, wlkVars, bgVars >>
    \/ DmbBuild /\ UNCHANGED << gcVars, idxVars, mrgVars, cciVars, uplVars, csiVars, revVars, dirVars, cpVars, repVars, wlkVars, bgVars >>

SpecDmb == InitDmb /\ [][NextDmb]_vars

(***************************************************************************)
(* Claims about dirManifestBuilder                                         *)
(***************************************************************************)

\* f[1] + ... + f[n]
RECURSIVE SumTo(_, _)
SumTo(f, n) == IF n = 0 THEN 0 ELSE f[n] + SumTo(f, n - 1)

\* what one call adds to the counters of the summary
ContributionOf(call) ==
    LET none == [TotalFileCount |-> 0, TotalFileSize |-> 0, TotalDirCount |-> 0,
                 TotalSymlinkCount |-> 0, FatalErrorCount |-> 0, IgnoredErrorCount |-> 0]
    IN CASE call.op = "addFailedEntry" /\ call.isIgnoredError ->
                [none EXCEPT !.IgnoredErrorCount = 1]
         [] call.op = "addFailedEntry" /\ ~call.isIgnoredError ->
                [none EXCEPT !.FatalErrorCount = 1]
         [] call.op = "addEntry" /\ call.de.Type = "f" ->
                [none EXCEPT !.TotalFileCount = 1, !.TotalFileSize = call.de.FileSize]
         [] call.op = "addEntry" /\ call.de.Type = "s" ->
                [none EXCEPT !.TotalSymlinkCount = 1]
         [] call.op = "addEntry" /\ call.de.Type = "d" /\ call.de.DirSummary # NilSummary ->
                [none EXCEPT !.TotalFileCount = call.de.DirSummary.TotalFileCount,
                             !.TotalFileSize = call.de.DirSummary.TotalFileSize,
                             !.TotalDirCount = call.de.DirSummary.TotalDirCount,
                             !.FatalErrorCount = call.de.DirSummary.FatalErrorCount,
                             !.IgnoredErrorCount = call.de.DirSummary.IgnoredErrorCount]
         [] OTHER -> none

Counters ==
    { "TotalFileCount", "TotalFileSize", "TotalDirCount", "TotalSymlinkCount",
      "FatalErrorCount", "IgnoredErrorCount" }

\* C14: whatever the interleaving of the addEntry and addFailedEntry calls,
\* the manifest a Build returns holds every entry as many times as addEntry
\* calls that returned before it added it, and every counter of its summary
\* is the sum of what those calls contribute (plus the one Build adds to
\* the directory count): no update is lost.
C14_NoLostUpdate ==
    \A k \in 1..Len(dmbBuilt) :
        LET r == dmbBuilt[k]
            n == Len(r.added)
        IN /\ Len(r.manifest.Entries) =
                  Cardinality({ i \in 1..n : r.added[i].op = "addEntry" })
           /\ \A de \in DirEntries :
                  Cardinality({ i \in 1..Len(r.manifest.Entries) :
                                  r.manifest.Entries[i] = de })
                  = Cardinality({ i \in 1..n : /\ r.added[i].op = "addEntry"
                                               /\ r.added[i].de = de })
           /\ \A c \in Counters :
                  r.manifest.Summary[c] =
                      SumTo([i \in 1..n |-> ContributionOf(r.added[i])[c]], n)
                      + (IF c = "TotalDirCount" THEN 1 ELSE 0)

\* a Build after three calls of the two workers, two of them adding the
\* same entry and one a failed entry
C14_Witness ==
    \E k \in 1..Len(dmbBuilt) :
        /\ Len(dmbBuilt[k].added) = 3
        /\ \E i, j \in 1..3 : /\ i # j
                               /\ dmbBuilt[k].added[i] = dmbBuilt[k].added[j]
                               /\ dmbBuilt[k].added[i].op = "addEntry"
        /\ \E i \in 1..3 : dmbBuilt[k].added[i].op = "addFailedEntry"

\* C15: in every manifest Build returns no non-directory stands before a
\* directory, and among the directories and among the non-directories no
\* entry stands before one with a smaller name.
C15_EntriesOrdered ==
    \A k \in 1..Len(dmbBuilt) :
        LET e == dmbBuilt[k].manifest.Entries IN
        \A i, j \in 1..Len(e) :
            i < j => /\ (e[i].Type = "d") \/ (e[j].Type # "d")
                     /\ (e[i].Type = "d") = (e[j].Type = "d") =>
                            ~StrLess(e[j].Name, e[i].Name)

\* a manifest with the directory c before the symlink a and the file b,
\* which were added before it
C15_Witness ==
    \E k \in 1..Len(dmbBuilt) :
        /\ Len(dmbBuilt[k].added) = 3
        /\ dmbBuilt[k].added[1].op = "addEntry" /\ dmbBuilt[k].added[1].de.Type = "f"
        /\ dmbBuilt[k].added[2].op = "addEntry" /\ dmbBuilt[k].added[2].de.Type = "s"
        /\ dmbBuilt[k].added[3].op = "addEntry" /\ dmbBuilt[k].added[3].de.Type = "d"
        /\ dmbBuilt[k].manifest.Entries[1].Type = "d"
        /\ dmbBuilt[k].manifest.Entries[2].Type = "s"

\* C16 as stated: in every manifest Build returns, every count of the
\* summary, and its MaxModTime, is at least that of the summary of every
\* child directory entry that has one.
C16_SummaryAtLeastChild ==
    \A k \in 1..Len(dmbBuilt) :
        LET m == dmbBuilt[k].manifest IN
        \A i \in 1..Len(m.Entries) :
            (m.Entries[i].Type = "d" /\ m.Entries[i].DirSummary # NilSummary) =>
                /\ \A c \in Counters : m.Summary[c] >= m.Entries[i].DirSummary[c]
                /\ m.Summary.MaxModTime >= m.Entries[i].DirSummary.MaxModTime

\* C17 as stated: the failed entries of the summary of every manifest Build
\* returns are in ascending order of path and are at most
\* MaxFailedEntriesPerDirectorySummary.
C17_FailedEntriesSortedAndCapped ==
    \A k \in 1..Len(dmbBuilt) :
        LET f == dmbBuilt[k].manifest.Summary.FailedEntries IN
        /\ \A i, j \in 1..Len(f) : i < j => ~StrLess(f[j], f[i])
        /\ Len(f) <= MaxFailedEntriesPerDirectorySummary

(***************************************************************************)
(* The Uploader: cancellation.  An Upload copies the files of its source   *)
(* with the workers of the pool, writes one manifest for every directory   *)
(* of the source, the root last, and returns a snapshot manifest or an     *)
(* error.  Cancel may be called at any moment by any goroutine.            *)
(***************************************************************************)
MaxBudget == 2
MaxWritten == 4
NumDirs == 2

IncompleteReasonCanceled == "canceled"
IncompleteReasonLimitReached == "limit reached"

\* Uploader.incompleteReason
incompleteReason(canceled, totalWrittenBytes, MaxUploadBytes) ==
    IF canceled # 0 THEN IncompleteReasonCanceled
    ELSE IF MaxUploadBytes > 0 /\ totalWrittenBytes > MaxUploadBytes
         THEN IncompleteReasonLimitReached
         ELSE ""

\* Uploader.IsCanceled
IsCanceled == incompleteReason(uplCanceled, uplTotalWrittenBytes, uplMaxUploadBytes) # ""

\* history: the reason the Upload became canceled for, once it has one
FirstReason(canceled, totalWrittenBytes) ==
    IF uplFirstReason # "" THEN uplFirstReason
    ELSE incompleteReason(canceled, totalWrittenBytes, uplMaxUploadBytes)

InitUpl ==
    /\ uplPC = "idle" /\ uplSource = "" /\ uplCanceled = 0
    /\ uplTotalWrittenBytes = 0 /\ uplMaxUploadBytes = 0
    /\ uplCopies = {} /\ uplDirsLeft = 0 /\ uplManifests = << >>
    /\ uplFirstReason = "" /\ uplCutShort = FALSE /\ uplResult = NoResult
    /\ GCIdle
    /\ IdxIdle
    /\ MrgIdle
    /\ CciIdle
    /\ DmbIdle
    /\ CsiIdle
    /\ RevIdle
    /\ DirIdle
    /\ CpIdle
    /\ RepIdle
    /\ WlkIdle
    /\ BgIdle

\* Uploader.Cancel
UplCancel ==
    /\ uplCanceled' = 1
    /\ uplFirstReason' = IF uplPC = "idle" THEN uplFirstReason
                         ELSE FirstReason(1, uplTotalWrittenBytes)
    /\ UNCHANGED << uplPC, uplSource, uplTotalWrittenBytes, uplMaxUploadBytes, uplCopies,
                    uplDirsLeft, uplManifests, uplCutShort, uplResult >>

\* Upload, up to the start of the work on the source: the caller has set
\* MaxUploadBytes; the byte count starts at 0 and u.canceled is left as it is
UplUpload ==
    /\ uplPC = "idle"
    /\ \E source \in { "dir", "file" } : \E mub \in 0..MaxBudget :
           /\ uplSource' = source
           /\ uplMaxUploadBytes' = mub
           /\ uplDirsLeft' = IF source = "dir" THEN NumDirs ELSE 0
           /\ uplFirstReason' = incompleteReason(uplCanceled, 0, mub)
    /\ uplTotalWrittenBytes' = 0
    /\ uplPC' = "running"
    /\ uplCopies' = {}
    /\ uplManifests' = << >>
    /\ uplCutShort' = FALSE
    /\ uplResult' = NoResult
    /\ UNCHANGED uplCanceled

\* copyWithProgress, the top of its loop, in worker w: when the upload is
\* canceled the copy returns errCanceled.  Under a directory the error is not
\* reported (reportErrorAndMaybeCancel) and the loop over the entries stops;
\* when the file is the source itself Upload returns the error.
UplCopyCheck(w) ==
    /\ uplPC = "running"
    /\ w \notin uplCopies
    /\ IF uplSource = "dir" THEN uplDirsLeft > 0 ELSE uplCopies = {}
    /\ IF IsCanceled
       THEN /\ uplCutShort' = TRUE
            /\ IF uplSource = "file"
               THEN /\ uplResult' = [manifest |-> [nil |-> TRUE],
                                     err |-> "canceled when copying data: canceled",
                                     cutShort |-> TRUE, otherError |-> FALSE,
                                     first |-> uplFirstReason]
                    /\ uplPC' = "idle"
               ELSE UNCHANGED << uplResult, uplPC >>
            /\ UNCHANGED uplCopies
       ELSE /\ uplCopies' = uplCopies \cup { w }
            /\ UNCHANGED << uplCutShort, uplResult, uplPC >>
    /\ UNCHANGED << uplSource, uplCanceled, uplTotalWrittenBytes, uplMaxUploadBytes,
                    uplDirsLeft, uplManifests, uplFirstReason >>

\* a mutant of UplCopyWrite: the count is that of the bytes of this write
UplCopyWritePerWrite(w) ==
    /\ w \in uplCopies
    /\ \E wroteBytes \in { 1, 2 } :
           /\ uplTotalWrittenBytes + wroteBytes <= MaxWritten
           /\ uplTotalWrittenBytes' = wroteBytes
           /\ uplFirstReason' = FirstReason(uplCanceled, wroteBytes)
    /\ uplCopies' = uplCopies \ { w }
    /\ UNCHANGED << uplPC, uplSource, uplCanceled, uplMaxUploadBytes, uplDirsLeft,
                    uplManifests, uplCutShort, uplResult >>

\* copyWithProgress in worker w: a read that returns bytes, which are
\* written and added to u.totalWrittenBytes
UplCopyWrite(w) ==
    /\ w \in uplCopies
    /\ \E wroteBytes \in { 1, 2 } :
           /\ uplTotalWrittenBytes + wroteBytes <= MaxWritten
           /\ uplTotalWrittenBytes' = uplTotalWrittenBytes + wroteBytes
           /\ uplFirstReason' = FirstReason(uplCanceled, uplTotalWrittenBytes + wroteBytes)
    /\ uplCopies' = uplCopies \ { w }
    /\ UNCHANGED << uplPC, uplSource, uplCanceled, uplMaxUploadBytes, uplDirsLeft,
                    uplManifests, uplCutShort, uplResult >>

\* copyWithProgress in worker w: the read returns io.EOF and the file has
\* its entry; a file that is the source itself is the root entry
UplCopyEOF(w) ==
    /\ w \in uplCopies
    /\ uplCopies' = uplCopies \ { w }
    /\ uplPC' = IF uplSource = "file" THEN "rootDone" ELSE uplPC
    /\ UNCHANGED << uplSource, uplCanceled, uplTotalWrittenBytes, uplMaxUploadBytes,
                    uplDirsLeft, uplManifests, uplFirstReason, uplCutShort, uplResult >>

\* uploadDirInternal, after processChildren (whose errCanceled is dropped):
\* the manifest of the directory is built with the reason of this moment
\* and written; the root is built last, when no copy is under way
UplBuildDir ==
    /\ uplPC = "running"
    /\ uplSource = "dir"
    /\ uplDirsLeft > 0
    /\ uplDirsLeft = 1 => uplCopies = {}
    /\ uplManifests' =
           Append(uplManifests,
                  [IncompleteReason |-> incompleteReason(uplCanceled, uplTotalWrittenBytes,
                                                         uplMaxUploadBytes),
                   first |-> uplFirstReason])
    /\ uplDirsLeft' = uplDirsLeft - 1
    /\ uplPC' = IF uplDirsLeft = 1 THEN "rootDone" ELSE uplPC
    /\ UNCHANGED << uplSource, uplCanceled, uplTotalWrittenBytes, uplMaxUploadBytes,
                    uplCopies, uplFirstReason, uplCutShort, uplResult >>

\* an error that is not errCanceled (a directory that cannot be read, a
\* manifest that cannot be written): Upload returns it
UplFail ==
    /\ uplPC = "running"
    /\ uplCopies = {}
    /\ uplResult' = [manifest |-> [nil |-> TRUE], err |-> "error",
                     cutShort |-> uplCutShort, otherError |-> TRUE,
                     first |-> uplFirstReason]
    /\ uplPC' = "idle"
    /\ UNCHANGED << uplSource, uplCanceled, uplTotalWrittenBytes, uplMaxUploadBytes,
                    uplCopies, uplDirsLeft, uplManifests, uplFirstReason, uplCutShort >>

\* Upload, after the root entry is there: the snapshot manifest gets the
\* reason of this moment and is returned
UplReturn ==
    /\ uplPC = "rootDone"
    /\ uplResult' = [manifest |->
                         [RootEntry |-> "root",
                          IncompleteReason |-> incompleteReason(uplCanceled,
                                                                uplTotalWrittenBytes,
                                                                uplMaxUploadBytes)],
                     err |-> "",
                     cutShort |-> uplCutShort, otherError |-> FALSE,
                     first |-> uplFirstReason]
    /\ uplPC' = "idle"
    /\ UNCHANGED << uplSource, uplCanceled, uplTotalWrittenBytes, uplMaxUploadBytes,
                    uplCopies, uplDirsLeft, uplManifests, uplFirstReason, uplCutShort >>

NextUpl ==
    \/ UplCancel /\ UNCHANGED << gcVars, idxVars, mrgVars, cciVars, dmbVars, csiVars, revVars, dirVars, cpVars, repVars, wlkVars, bgVars >>
    \/ UplUpload /\ UNCHANGED << gcVars, idxVars, mrgVars, cciVars, dmbVars, csiVars, revVars, dirVars, cpVars, repVars, wlkVars, bgVars >>
    \/ \E w \in Workers : UplCopyCheck(w) /\ UNCHANGED << gcVars, idxVars, mrgVars, cciVars, dmbVars, csiVars, revVars, dirVars, cpVars, repVars, wlkVars, bgVars >>
    \/ \E w \in Workers : UplCopyWrite(w) /\ UNCHANGED << gcVars, idxVars, mrgVars, cciVars, dmbVars, csiVars, revVars, dirVars, cpVars, repVars, wlkVars, bgVars >>
    \/ \E w \in Workers : UplCopyEOF(w) /\ UNCHANGED << gcVars, idxVars, mrgVars, cciVars, dmbVars, csiVars, revVars, dirVars, cpVars, repVars, wlkVars, bgVars >>
    \/ UplBuildDir /\ UNCHANGED << gcVars, idxVars, mrgVars, cciVars, dmbVars, csiVars, revVars, dirVars, cpVars, repVars, wlkVars, bgVars >>
    \/ UplFail /\ UNCHANGED << gcVars, idxVars, mrgVars, cciVars, dmbVars, csiVars, revVars, dirVars, cpVars, repVars, wlkVars, bgVars >>
    \/ UplReturn /\ UNCHANGED << gcVars, idxVars, mrgVars, cciVars, dmbVars, csiVars, revVars, dirVars, cpVars, repVars, wlkVars, bgVars >>

SpecUpl == InitUpl /\ [][NextUpl]_vars

(***************************************************************************)
(* Claims about the cancellation of an Upload                              *)
(***************************************************************************)

\* C18: while an Upload is in progress, IsCanceled, once true, is true after
\* every step: no step of the Upload, of a worker or of a caller of Cancel
\* makes it false again.
C18_IsCanceledMonotonic ==
    [][(uplPC # "idle" /\ uplPC' # "idle" /\ IsCanceled) =>
           incompleteReason(uplCanceled', uplTotalWrittenBytes', uplMaxUploadBytes') # ""]_vars

\* an Upload over its byte budget, not canceled by Cancel, in which a worker
\* that had passed the check wrote after the budget was exceeded and a
\* directory manifest was then written as incomplete
C18_Witness ==
    /\ uplPC # "idle"
    /\ uplCanceled = 0
    /\ uplMaxUploadBytes > 0
    /\ uplTotalWrittenBytes > uplMaxUploadBytes + 1
    /\ uplCutShort
    /\ Len(uplManifests) > 0
    /\ uplManifests[Len(uplManifests)].IncompleteReason = IncompleteReasonLimitReached

\* C19 as stated: every directory manifest written and the snapshot manifest
\* returned after the Upload became canceled carry the reason it first
\* became canceled for.
C19_FirstReasonRemembered ==
    /\ \A i \in 1..Len(uplManifests) :
           uplManifests[i].first # "" =>
               uplManifests[i].IncompleteReason = uplManifests[i].first
    /\ (uplResult # NoResult /\ uplResult.err = "" /\ uplResult.first # "") =>
           uplResult.manifest.IncompleteReason = uplResult.first

\* C20 as stated: an Upload that was cut short by cancellation and met no
\* other error returns no error and a snapshot manifest with a root entry
\* and the reason "canceled" or "limit reached".
C20_CanceledUploadReturnsManifest ==
    (uplResult # NoResult /\ uplResult.cutShort /\ ~uplResult.otherError) =>
        /\ uplResult.err = ""
        /\ uplResult.manifest # [nil |-> TRUE]
        /\ uplResult.manifest.IncompleteReason
               \in { IncompleteReasonCanceled, IncompleteReasonLimitReached }

(***************************************************************************)
(* combineSmallIndexes on lists of small and large indexes                 *)
(***************************************************************************)
MaxCombine == 3

\* the content IDs of a large index: as many as the threshold, one of them
\* an ID the small indexes hold as well
LargeIDs ==
    ({ << Alphabet[i], Alphabet[j] >> : i \in 1..10, j \in 1..10 } \ { << "9", "9" >> })
    \cup { << "a", "0" >> }

\* two indexes of smallIndexEntryCountThreshold entries
LargeIndexes ==
    { BuildAndOpen([id \in LargeIDs |-> MrgInfo(id, ts, << "x", "x" >>, FALSE)]) :
          ts \in { 4, 5 } }

\* the indexes a list is made of: those of the index blobs, which are
\* small, and the large ones
CsiIndexes == { OpenedIndexBlobs[blobID] : blobID \in IndexBlobIDs } \cup LargeIndexes

\* the lists combineSmallIndexes is called with: no index twice
CsiLists ==
    UNION { { l \in [1..n -> CsiIndexes] : \A i, j \in 1..n : i # j => l[i] # l[j] } :
                n \in 0..MaxCombine }

InitCsi ==
    /\ csiM \in CsiLists
    /\ csiResult = NoResult
    /\ GCIdle
    /\ IdxIdle
    /\ MrgIdle
    /\ CciIdle
    /\ DmbIdle
    /\ UplIdle
    /\ RevIdle
    /\ DirIdle
    /\ CpIdle
    /\ RepIdle
    /\ WlkIdle
    /\ BgIdle

\* the call combineSmallIndexes(m)
CsiCombine ==
    /\ csiResult = NoResult
    /\ csiResult' = combineSmallIndexes(csiM)
    /\ UNCHANGED csiM

NextCsi ==
    \/ CsiCombine /\ UNCHANGED << gcVars, idxVars, mrgVars, cciVars, dmbVars, uplVars, revVars, dirVars, cpVars, repVars, wlkVars, bgVars >>

SpecCsi == InitCsi /\ [][NextCsi]_vars

\* the content IDs an index holds
IDsOf(ndx) == { e.id : e \in Range(Iterate(ndx, AllIDs)) }

\* C30: with at most one index of fewer than smallIndexEntryCountThreshold
\* entries in the list, combineSmallIndexes returns the list as it is;
\* with more it returns the indexes of at least that many entries, as they
\* are and in their order, followed by one index that is none of the
\* list's and holds the content IDs of all the small ones, each with the
\* info a Merged of the small ones gives for it.
C30_CombineSmallOnly ==
    csiResult # NoResult =>
        LET small == { i \in 1..Len(csiM) :
                         ApproximateCount(csiM[i]) < smallIndexEntryCountThreshold }
            large == { i \in 1..Len(csiM) :
                         ApproximateCount(csiM[i]) >= smallIndexEntryCountThreshold }
            res == csiResult.merged
        IN /\ csiResult.err = ""
           /\ Cardinality(small) <= 1 => res = csiM
           /\ Cardinality(small) > 1 =>
                  /\ Len(res) = Cardinality(large) + 1
                  /\ \A k \in 1..Cardinality(large) :
                         \E i \in large :
                             /\ res[k] = csiM[i]
                             /\ Cardinality({ j \in large : j < i }) = k - 1
                  /\ \A i \in 1..Len(csiM) : res[Len(res)] # csiM[i]
                  /\ IDsOf(res[Len(res)]) = UNION { IDsOf(csiM[i]) : i \in small }
                  /\ \A id \in MrgProbeIDs :
                         GetInfo(res[Len(res)], id) =
                             MergedGetInfo([k \in 1..Cardinality(small) |->
                                               csiM[CHOOSE i \in small :
                                                   Cardinality({ j \in small : j < i }) = k - 1]],
                                           id)

\* a list of a small, a large and a small index, combined into the large
\* one and a new one
C30_Witness ==
    /\ csiResult # NoResult
    /\ Len(csiM) = 3
    /\ ApproximateCount(csiM[1]) < smallIndexEntryCountThreshold
    /\ ApproximateCount(csiM[2]) >= smallIndexEntryCountThreshold
    /\ ApproximateCount(csiM[3]) < smallIndexEntryCountThreshold
    /\ Len(csiResult.merged) = 2
    /\ csiResult.merged[1] = csiM[2]

\* the ranges Iterate is called with: the prefixed IDs, the IDs up to 1 and
\* the IDs from 9 on, which hold every ID of the small indexes and ten of
\* each large one
CsiRanges ==
    { AllPrefixedIDs,
      [StartID |-> << >>, EndID |-> << "1" >>],
      [StartID |-> << "9" >>, EndID |-> AllIDs.EndID] }

\* C36: when combineSmallIndexes returns a list, a Merged of that list
\* answers as a Merged of the list it was given: GetInfo gives the same
\* result for every content ID, and Iterate yields the same sequence for
\* every range.
C36_CombinePreservesAnswers ==
    (csiResult # NoResult /\ csiResult.err = "") =>
        /\ \A id \in MrgProbeIDs \cup { << "9", "0" >> } :
               MergedGetInfo(csiResult.merged, id) = MergedGetInfo(csiM, id)
        /\ \A r \in CsiRanges :
               MergedIterate(csiResult.merged, r) = MergedIterate(csiM, r)

\* two small indexes that hold different infos of one content ID, the older
\* one last, and a large index between them have been combined; the Merged
\* of the result gives the newer info
C36_Witness ==
    /\ csiResult # NoResult
    /\ csiResult.err = ""
    /\ Len(csiM) = 3
    /\ ApproximateCount(csiM[2]) >= smallIndexEntryCountThreshold
    /\ Len(csiResult.merged) = 2
    /\ \E id \in MrgProbeIDs :
           /\ GetInfo(csiM[1], id).found
           /\ GetInfo(csiM[3], id).found
           /\ GetInfo(csiM[1], id).info.ts > GetInfo(csiM[3], id).info.ts
           /\ MergedGetInfo(csiResult.merged, id).info = GetInfo(csiM[1], id).info

(***************************************************************************)
(* The revision counter and the index set.  Callers run addIndexBlob and   *)
(* use, readers read revision() and then look up (getContent or            *)
(* listContents, which take c.mu).  The index set is the set of the blobs  *)
(* in use; use holds c.mu from the increment of c.rev to the assignment.   *)
(***************************************************************************)
Readers == { "r1" }

\* the lists of index blobs given to use
RevIndexFiles == { {}, { "n1" }, { "n1", "n2" } }

InitRev ==
    /\ revMu = ""
    /\ revRev = 0
    /\ revInUse = {}
    /\ revLog = << >>
    /\ revCalls = << >>
    /\ revReaders = << >>
    /\ revObs = NoResult
    /\ GCIdle
    /\ IdxIdle
    /\ MrgIdle
    /\ CciIdle
    /\ DmbIdle
    /\ UplIdle
    /\ CsiIdle
    /\ DirIdle
    /\ CpIdle
    /\ RepIdle
    /\ WlkIdle
    /\ BgIdle

\* the increments of c.rev that the calls in flight will still make
RevPending == Cardinality({ t \in DOMAIN revCalls : revCalls[t].pc # "assign" })

\* addIndexBlob up to c.mu.Lock(): the increment is deferred, the blob is
\* added to the cache, and the call returns when that fails or use is false
RevAddEnter(t) ==
    /\ t \notin DOMAIN revCalls
    /\ revRev + RevPending < MaxRev
    /\ \E indexBlobID \in { "n1", "n2" } : \E use \in BOOLEAN : \E cacheOK \in BOOLEAN :
           revCalls' = (t :> [op |-> "addIndexBlob", indexBlobID |-> indexBlobID,
                              pc |-> IF cacheOK /\ use THEN "lock" ELSE "return",
                              change |-> 0])
                       @@ revCalls
    /\ UNCHANGED << revMu, revRev, revInUse, revLog, revReaders, revObs >>

\* addIndexBlob under c.mu: the blob joins the index set unless it is there
\* or its index cannot be opened
RevAddLock(t) ==
    /\ t \in DOMAIN revCalls
    /\ revCalls[t].pc = "lock"
    /\ revMu = ""
    /\ \E openOK \in BOOLEAN :
           IF revCalls[t].indexBlobID \in revInUse \/ ~openOK
           THEN /\ revCalls' = [revCalls EXCEPT ![t].pc = "return"]
                /\ UNCHANGED << revInUse, revLog >>
           ELSE /\ revInUse' = revInUse \cup { revCalls[t].indexBlobID }
                /\ revLog' = Append(revLog, [rev |-> 0, inUse |-> revInUse'])
                /\ revCalls' = [revCalls EXCEPT ![t].pc = "return",
                                                ![t].change = Len(revLog) + 1]
    /\ UNCHANGED << revMu, revRev, revReaders, revObs >>

\* the return of addIndexBlob: the deferred increment of c.rev, after c.mu
\* was released
RevAddReturn(t) ==
    /\ t \in DOMAIN revCalls
    /\ revCalls[t].pc = "return"
    /\ revRev' = revRev + 1
    /\ revLog' = IF revCalls[t].change = 0 THEN revLog
                 ELSE [revLog EXCEPT ![revCalls[t].change].rev = revRev + 1]
    /\ revCalls' = [u \in DOMAIN revCalls \ { t } |-> revCalls[u]]
    /\ UNCHANGED << revMu, revInUse, revReaders, revObs >>

\* use up to the increment of c.rev: c.mu is taken; the call returns when
\* the index files have not changed or merge fails
RevUseLock(t) ==
    /\ t \notin DOMAIN revCalls
    /\ revMu = ""
    /\ \E indexFiles \in RevIndexFiles : \E mergeOK \in BOOLEAN :
           IF indexFiles = revInUse \/ ~mergeOK
           THEN UNCHANGED << revMu, revRev, revCalls >>
           ELSE /\ revRev + RevPending < MaxRev
                /\ revRev' = revRev + 1
                /\ revMu' = t
                /\ revCalls' = (t :> [op |-> "use", indexFiles |-> indexFiles,
                                      pc |-> "assign", change |-> revRev + 1])
                               @@ revCalls
    /\ UNCHANGED << revInUse, revLog, revReaders, revObs >>

\* use from the assignment of c.merged and c.inUse to the release of c.mu
RevUseAssign(t) ==
    /\ t \in DOMAIN revCalls
    /\ revCalls[t].pc = "assign"
    /\ revMu = t
    /\ revInUse' = revCalls[t].indexFiles
    /\ revLog' = Append(revLog, [rev |-> revCalls[t].change, inUse |-> revInUse'])
    /\ revMu' = ""
    /\ revCalls' = [u \in DOMAIN revCalls \ { t } |-> revCalls[u]]
    /\ UNCHANGED << revRev, revReaders, revObs >>

\* revision(): an atomic load, whoever holds c.mu
RevRevision(r) ==
    /\ r \notin DOMAIN revReaders
    /\ revReaders' = (r :> revRev) @@ revReaders
    /\ UNCHANGED << revMu, revRev, revInUse, revLog, revCalls, revObs >>

\* a mutant of RevLookup: the index set is read without c.mu
RevLookupNoLock(r) ==
    /\ r \in DOMAIN revReaders
    /\ revObs' = [reader |-> r, r |-> revReaders[r], inUse |-> revInUse,
                  changes |-> Len(revLog)]
    /\ revReaders' = [u \in DOMAIN revReaders \ { r } |-> revReaders[u]]
    /\ UNCHANGED << revMu, revRev, revInUse, revLog, revCalls >>

\* getContent or listContents by a reader that has read revision(): the
\* index set is read under c.mu
RevLookup(r) ==
    /\ r \in DOMAIN revReaders
    /\ revMu = ""
    /\ revObs' = [reader |-> r, r |-> revReaders[r], inUse |-> revInUse,
                  changes |-> Len(revLog)]
    /\ revReaders' = [u \in DOMAIN revReaders \ { r } |-> revReaders[u]]
    /\ UNCHANGED << revMu, revRev, revInUse, revLog, revCalls >>

NextRev ==
    \/ \E t \in Callers : RevAddEnter(t) /\ UNCHANGED << gcVars, idxVars, mrgVars, cciVars, dmbVars, uplVars, csiVars, dirVars, cpVars, repVars, wlkVars, bgVars >>
    \/ \E t \in Callers : RevAddLock(t) /\ UNCHANGED << gcVars, idxVars, mrgVars, cciVars, dmbVars, uplVars, csiVars, dirVars, cpVars, repVars, wlkVars, bgVars >>
    \/ \E t \in Callers : RevAddReturn(t) /\ UNCHANGED << gcVars, idxVars, mrgVars, cciVars, dmbVars, uplVars, csiVars, dirVars, cpVars, repVars, wlkVars, bgVars >>
    \/ \E t \in Callers : RevUseLock(t) /\ UNCHANGED << gcVars, idxVars, mrgVars, cciVars, dmbVars, uplVars, csiVars, dirVars, cpVars, repVars, wlkVars, bgVars >>
    \/ \E t \in Callers : RevUseAssign(t) /\ UNCHANGED << gcVars, idxVars, mrgVars, cciVars, dmbVars, uplVars, csiVars, dirVars, cpVars, repVars, wlkVars, bgVars >>
    \/ \E r \in Readers : RevRevision(r) /\ UNCHANGED << gcVars, idxVars, mrgVars, cciVars, dmbVars, uplVars, csiVars, dirVars, cpVars, repVars, wlkVars, bgVars >>
    \/ \E r \in Readers : RevLookup(r) /\ UNCHANGED << gcVars, idxVars, mrgVars, cciVars, dmbVars, uplVars, csiVars, dirVars, cpVars, repVars, wlkVars, bgVars >>

SpecRev == InitRev /\ [][NextRev]_vars

\* C29: a lookup made after reading revision() = r sees every change of
\* the index set whose increment of c.rev produced a value of at most r:
\* the index set it sees is the one after that change or a later one.
C29_RevisionFreshness ==
    revObs # NoResult =>
        \A k \in 1..Len(revLog) :
            (revLog[k].rev # 0 /\ revLog[k].rev <= revObs.r) => revObs.changes >= k

\* a reader read the value that use had just produced while use still held
\* c.mu with the previous index set in place, and its lookup then saw the
\* new index set
C29_Witness ==
    /\ revObs # NoResult
    /\ Len(revLog) >= 2
    /\ revObs.changes = Len(revLog)
    /\ revLog[Len(revLog)].rev = revObs.r
    /\ revObs.inUse = revLog[Len(revLog)].inUse
    /\ revObs.inUse # revLog[Len(revLog) - 1].inUse
    /\ \E t \in DOMAIN revCalls : revCalls[t].op = "addIndexBlob" /\ revCalls[t].pc = "return"

(***************************************************************************)
(* Builder.buildV2 as a function of the builder: its error and the number  *)
(* of bytes that reach the output                                          *)
(***************************************************************************)
MaxBldEntries == 2

\* the bytes buildV2 has handed to its bufio.Writer when it returns the error
\* of the first entry it cannot write: the header and the entries before it
BufferedBeforeEntryError(b) ==
    LET sortedInfos == sortedContents(b)
        b2 == newIndexBuilderV2(sortedInfos)
        bad == { i \in 1..Len(sortedInfos) : writeIndexEntry(b2, sortedInfos[i]).err # "" }
        first == CHOOSE i \in bad : \A j \in bad : i <= j
    IN v2IndexHeaderSize + (first - 1) * (b2.keyLength + b2.entrySize)

\* Builder.buildV2(output): the error it returns and the number of bytes
\* written to output. No writer exists while newIndexBuilderV2 runs, the key
\* length is looked at before the header is written, and a bufio.Writer that
\* is not flushed has passed on only the whole buffers of 4096 bytes it filled
buildV2Output(b) ==
    LET f == buildV2(b) IN
    [err |-> f.err,
     written |-> IF f.err = "" THEN extraDataStart(f) + Len(f.extraData)
                 ELSE IF f.err = "unable to write entry"
                      THEN (BufferedBeforeEntryError(b) \div 4096) * 4096
                 ELSE 0]

\* the infos a content ID is added with, and two more whose packed and whose
\* original length is the first one the format has no room for
BldInfosFor(id) ==
    InfosFor(id) \cup
    { [id |-> id, ts |-> 1, pack |-> << "x", "x" >>, offset |-> 0,
       olen |-> 1, plen |-> v2MaxContentLength, deleted |-> FALSE,
       fmt |-> [compressionHeaderID |-> 0, formatVersion |-> 1, encryptionKeyID |-> 0]],
      [id |-> id, ts |-> 1, pack |-> << "x", "x" >>, offset |-> 0,
       olen |-> v2MaxContentLength, plen |-> 1, deleted |-> FALSE,
       fmt |-> [compressionHeaderID |-> 0, formatVersion |-> 1, encryptionKeyID |-> 0]] }

\* a builder of n contents in one pack, each of a format of its own
ManyFormats(n) ==
    [id \in { << HexDigit(i \div 16), HexDigit(i) >> : i \in 0..(n - 1) } |->
        LET i == CHOOSE k \in 0..(n - 1) : id = << HexDigit(k \div 16), HexDigit(k) >> IN
        [id |-> id, ts |-> 1, pack |-> << "x", "x" >>, offset |-> i,
         olen |-> 1, plen |-> 1, deleted |-> FALSE,
         fmt |-> [compressionHeaderID |-> i, formatVersion |-> 1, encryptionKeyID |-> 0]]]

\* the builders built: every builder of at most MaxBldEntries contents, and
\* the builders of v2MaxFormatCount formats and of one more
BldBuilders ==
    LET small == UNION { [ids -> UNION { BldInfosFor(id) : id \in ids }] :
                           ids \in { s \in SUBSET IdxIDs : Cardinality(s) <= MaxBldEntries } }
    IN { b \in small : \A id \in DOMAIN b : b[id].id = id }
       \cup { ManyFormats(v2MaxFormatCount), ManyFormats(v2MaxFormatCount + 1) }

InitBld ==
    /\ idxPC = "building"
    /\ idxBuilder \in BldBuilders
    /\ idxIndex = NoIndex
    /\ idxQuery = NoQuery
    /\ GCIdle
    /\ MrgIdle
    /\ CciIdle
    /\ DmbIdle
    /\ UplIdle
    /\ CsiIdle
    /\ RevIdle
    /\ DirIdle
    /\ CpIdle
    /\ RepIdle
    /\ WlkIdle
    /\ BgIdle

\* Builder.buildV2 into an empty buffer
IdxBuild ==
    /\ idxPC = "building"
    /\ idxQuery' = [op |-> "Build", res |-> buildV2Output(idxBuilder)]
    /\ idxPC' = "built"
    /\ UNCHANGED << idxBuilder, idxIndex >>

NextBld ==
    \/ IdxBuild /\ UNCHANGED << gcVars, mrgVars, cciVars, dmbVars, uplVars, csiVars, revVars, dirVars, cpVars, repVars, wlkVars, bgVars >>

SpecBld == InitBld /\ [][NextBld]_vars

\* the builder holds a length, a pack offset, a number of formats or a number
\* of pack blob IDs that the claim says Build refuses
ExceedsV2Limits(b) ==
    \/ \E id \in DOMAIN b : b[id].plen >= 2^28
    \/ \E id \in DOMAIN b : b[id].olen >= 2^28
    \/ \E id \in DOMAIN b : b[id].offset >= 2^30
    \/ Cardinality({ b[id].fmt : id \in DOMAIN b }) > 255
    \/ Cardinality({ b[id].pack : id \in DOMAIN b }) > 2^24

someErr == "some error"

\* the loop of Iterate over the infos it reads, with a callback that returns
\* someErr for the content IDs of failIDs: the infos cb was called with and
\* the error returned. A mutant: the loop goes on after the error
CallbackIgnoringError(infos, failIDs) ==
    [calls |-> infos,
     err |-> IF \E i \in 1..Len(infos) : infos[i].id \in failIDs THEN someErr ELSE ""]

\* the loop of Iterate with that callback: the error of cb ends it
CallbackUntilError(infos, failIDs) ==
    LET bad == { i \in 1..Len(infos) : infos[i].id \in failIDs } IN
    IF bad = {} THEN [calls |-> infos, err |-> ""]
    ELSE [calls |-> SubSeq(infos, 1, CHOOSE i \in bad : \A j \in bad : i <= j),
          err |-> someErr]

\* indexV2.Iterate(r, cb) with the callback that fails for failIDs
IterateCb(b, r, failIDs) == CallbackUntilError(Iterate(b, r), failIDs)

\* Merged.Iterate(r, cb) with the callback that fails for failIDs
MergedIterateCb(m, r, failIDs) == CallbackUntilError(MergedIterate(m, r), failIDs)

\* an item list whose content ID has a key one byte longer than the others
MrgLongID == << "0", "1", "0", "2" >>
MrgLongItems == MrgLongID :> MrgInfo(MrgLongID, 1, << "x", "x" >>, FALSE)

\* the callbacks: fail for one content ID, fail for every content ID
MrgFailIDs == { { id } : id \in MrgIDs } \cup { MrgIDs \cup { MrgLongID } }

\* indexWithItems for the item list of the longer key
indexWithLongItems ==
    /\ mrgPC = "building"
    /\ Len(mrgIndexes) < MaxIndexes
    /\ mrgItems' = Append(mrgItems, MrgLongItems)
    /\ mrgIndexes' = Append(mrgIndexes, BuildAndOpen(MrgLongItems))
    /\ UNCHANGED << mrgPC, mrgQuery >>

\* m.GetInfo(id) for an ID whose key may be of another length than the keys
\* of an index of m
MrgGetInfoError ==
    /\ mrgPC = "building"
    /\ \E id \in MrgProbeIDs \cup { MrgLongID } :
           mrgQuery' = [op |-> "GetInfoError", id |-> id,
                        res |-> MergedGetInfo(mrgIndexes, id)]
    /\ mrgPC' = "queried"
    /\ UNCHANGED << mrgItems, mrgIndexes >>

\* m.Iterate(AllIDs, cb) with a callback that fails
MrgIterateCb ==
    /\ mrgPC = "building"
    /\ \E failIDs \in MrgFailIDs :
           mrgQuery' = [op |-> "MergedIterateCb", failIDs |-> failIDs,
                        res |-> MergedIterateCb(mrgIndexes, AllIDs, failIDs)]
    /\ mrgPC' = "queried"
    /\ UNCHANGED << mrgItems, mrgIndexes >>

\* Iterate(AllIDs, cb) of the pack index built last, with a callback that
\* fails
MrgIndexIterateCb ==
    /\ mrgPC = "building"
    /\ Len(mrgIndexes) > 0
    /\ \E failIDs \in MrgFailIDs :
           mrgQuery' = [op |-> "IterateCb", ndx |-> Len(mrgIndexes), failIDs |-> failIDs,
                        res |-> IterateCb(mrgIndexes[Len(mrgIndexes)], AllIDs, failIDs)]
    /\ mrgPC' = "queried"
    /\ UNCHANGED << mrgItems, mrgIndexes >>

NextMrgErr ==
    \/ indexWithItems /\ UNCHANGED << gcVars, idxVars, cciVars, dmbVars, uplVars, csiVars, revVars, dirVars, cpVars, repVars, wlkVars, bgVars >>
    \/ indexWithLongItems /\ UNCHANGED << gcVars, idxVars, cciVars, dmbVars, uplVars, csiVars, revVars, dirVars, cpVars, repVars, wlkVars, bgVars >>
    \/ MrgGetInfoError /\ UNCHANGED << gcVars, idxVars, cciVars, dmbVars, uplVars, csiVars, revVars, dirVars, cpVars, repVars, wlkVars, bgVars >>
    \/ MrgIterateCb /\ UNCHANGED << gcVars, idxVars, cciVars, dmbVars, uplVars, csiVars, revVars, dirVars, cpVars, repVars, wlkVars, bgVars >>
    \/ MrgIndexIterateCb /\ UNCHANGED << gcVars, idxVars, cciVars, dmbVars, uplVars, csiVars, revVars, dirVars, cpVars, repVars, wlkVars, bgVars >>

SpecMrgErr == InitMrg /\ [][NextMrgErr]_vars

\* the content IDs the iterated index (the Merged, or its last index) holds
IterateCbSource ==
    IF mrgQuery.op = "IterateCb" THEN DOMAIN mrgItems[mrgQuery.ndx]
    ELSE UNION { DOMAIN mrgItems[i] : i \in 1..Len(mrgItems) }

\* C28: when the callback returns an error for some ID, Iterate calls it for
\* no further ID and returns that error; with no failing ID in the index
\* every ID is handed over and no error is returned; an empty Merged never
\* calls the callback and returns no error; and when GetInfo of an underlying
\* index fails, Merged.GetInfo returns that error and no info.
C28_ErrorsPassThrough ==
    /\ mrgQuery.op \in { "MergedIterateCb", "IterateCb" } =>
           LET calls == mrgQuery.res.calls
               failing == IterateCbSource \cap mrgQuery.failIDs
           IN /\ \A i \in 1..(Len(calls) - 1) : calls[i].id \notin mrgQuery.failIDs
              /\ failing # {} =>
                     /\ mrgQuery.res.err = someErr
                     /\ calls # << >>
                     /\ calls[Len(calls)].id \in mrgQuery.failIDs
                     /\ \A id \in IterateCbSource :
                            StrLess(id, calls[Len(calls)].id)
                                => \E i \in 1..Len(calls) : calls[i].id = id
              /\ failing = {} =>
                     /\ mrgQuery.res.err = ""
                     /\ { calls[i].id : i \in 1..Len(calls) } = IterateCbSource
              /\ mrgIndexes = << >> => (calls = << >> /\ mrgQuery.res.err = "")
    /\ mrgQuery.op = "GetInfoError" =>
           LET errs == { GetInfo(mrgIndexes[i], mrgQuery.id).err : i \in 1..Len(mrgIndexes) }
                           \ { "" }
           IN IF errs = {} THEN mrgQuery.res.err = ""
              ELSE /\ mrgQuery.res.err \in errs
                   /\ ~mrgQuery.res.found
                   /\ "info" \notin DOMAIN mrgQuery.res

\* a Merged of three indexes that hold a0, d1 and k01 is iterated with a
\* callback that fails for d1: the callback was given a0 and d1 and not k01
C28_Witness ==
    /\ mrgQuery.op = "MergedIterateCb"
    /\ Len(mrgIndexes) = 3
    /\ mrgQuery.failIDs = { << "d", "1" >> }
    /\ MrgIDs \subseteq IterateCbSource
    /\ mrgQuery.res.err = someErr
    /\ Len(mrgQuery.res.calls) = 2
    /\ mrgQuery.res.calls[2].id = << "d", "1" >>

(***************************************************************************)
(* Upload of a directory tree: uploadDirInternal, processChildren and the  *)
(* per-entry functions, with a worker pool of no workers (every entry is   *)
(* processed inline, in the order of Readdir).  An error is the chain of   *)
(* its wrappers, outermost first; no error is the empty chain.             *)
(***************************************************************************)
MaxRootEntries == 3

errCanceled == << "canceled" >>

\* errors.Is(err, target)
ErrorsIs(err, target) == \E i \in 1..Len(err) : err[i] = target[1]

\* errors.Wrap(err, msg)
Wrap(err, msg) == << msg >> \o err

\* dirReadError{err}, and errors.As(err, &dre) with dre.error
dirReadError(err) == << "dirReadError" >> \o err
ErrorsAsDirReadError(err) == \E i \in 1..Len(err) : err[i] = "dirReadError"
DirReadErrorOf(err) ==
    SubSeq(err, (CHOOSE i \in 1..Len(err) : err[i] = "dirReadError") + 1, Len(err))

\* no entry: a nil fs.Entry, a nil *snapshot.DirEntry, a nil manifest
NilEntry == [nil |-> TRUE]

\* path.Join(relativePath, entry.Name()); the root is ".", the empty path
\* here, and the separator is left out: names are single characters
JoinPath(relativePath, name) == relativePath \o name

\* &snapshot.Stats{} and the Uploader after NewUploader
ZeroStats ==
    [CachedFiles |-> 0, NonCachedFiles |-> 0, TotalFileSize |-> 0, TotalFileCount |-> 0,
     ErrorCount |-> 0, IgnoredErrorCount |-> 0, TotalDirectoryCount |-> 0]
NewUploader == [canceled |-> 0, totalWrittenBytes |-> 0, stats |-> ZeroStats]

\* &dirManifestBuilder{}
EmptyBuilder == [summary |-> ZeroSummary, entries |-> << >>]

\* metadataEquals
metadataEquals(e1, e2) ==
    /\ e1.ModTime = e2.ModTime
    /\ e1.Mode = e2.Mode
    /\ e1.Size = e2.Size
    /\ e1.Owner = e2.Owner

\* fs.Entries.FindByName
FindByName(entries, name) ==
    IF \E i \in 1..Len(entries) : entries[i].Name = name
    THEN entries[CHOOSE i \in 1..Len(entries) : entries[i].Name = name]
    ELSE NilEntry

\* findCachedEntry: the entry of the first previous directory that holds the
\* name with the same metadata
findCachedEntry(entry, prevEntries) ==
    LET same == { k \in 1..Len(prevEntries) :
                    LET ent == FindByName(prevEntries[k], entry.Name) IN
                    IF ent = NilEntry THEN FALSE ELSE metadataEquals(entry, ent) }
    IN IF same = {} THEN NilEntry
       ELSE FindByName(prevEntries[CHOOSE k \in same : \A j \in same : k <= j], entry.Name)

\* a mutant of maybeIgnoreCachedEntry: every cached entry is hashed again
maybeIgnoreCachedEntryAlways(ent, ForceHashPercentage, roll) == NilEntry

\* Uploader.maybeIgnoreCachedEntry; roll is 100*rand.Float64()
maybeIgnoreCachedEntry(ent, ForceHashPercentage, roll) ==
    IF ent = NilEntry THEN NilEntry
    ELSE IF ent.HasObjectID
         THEN IF roll < ForceHashPercentage THEN NilEntry ELSE ent
         ELSE NilEntry

\* newDirEntry
newDirEntry(md, oid) ==
    IF md.Kind \in { "d", "s", "f" }
    THEN [err |-> << >>,
          de |-> [Name |-> md.Name, Type |-> md.Kind, FileSize |-> md.Size,
                  ModTime |-> md.ModTime, ObjectID |-> oid, DirSummary |-> NilSummary]]
    ELSE [err |-> << "invalid entry type" >>, de |-> NilEntry]

\* the object ID the repository gives to what was written for an entry
ResultOf(f) == << "hash", f.Name, f.Content >>

\* a mutant of uploadFileInternal: the size of the entry is left as it is
uploadFileInternalEntrySize(u, f) ==
    IF f.Err THEN [u |-> u, err |-> << "unable to open file", "open failed" >>, de |-> NilEntry]
    ELSE LET de == newDirEntry(f, ResultOf(f)).de IN
         [u |-> [u EXCEPT !.stats.TotalFileCount = @ + 1,
                          !.stats.TotalFileSize = @ + de.FileSize],
          err |-> << >>, de |-> de]

\* Uploader.uploadFileInternal: f.Content bytes are read from the file
uploadFileInternal(u, f) ==
    IF f.Err THEN [u |-> u, err |-> << "unable to open file", "open failed" >>, de |-> NilEntry]
    ELSE LET de == [newDirEntry(f, ResultOf(f)).de EXCEPT !.FileSize = f.Content] IN
         [u |-> [u EXCEPT !.stats.TotalFileCount = @ + 1,
                          !.stats.TotalFileSize = @ + de.FileSize],
          err |-> << >>, de |-> de]

\* Uploader.uploadSymlinkInternal
uploadSymlinkInternal(u, f) ==
    IF f.Err THEN [u |-> u, err |-> << "unable to read symlink", "readlink failed" >>,
                   de |-> NilEntry]
    ELSE [u |-> u, err |-> << >>,
          de |-> [newDirEntry(f, ResultOf(f)).de EXCEPT !.FileSize = f.Content]]

\* a mutant of reportErrorAndMaybeCancel: every error cancels a FailFast upload
reportErrorAndAlwaysCancel(cfg, st, err, isIgnored, entryRelativePath) ==
    IF /\ incompleteReason(st.u.canceled, st.u.totalWrittenBytes, cfg.MaxUploadBytes) # ""
       /\ ErrorsIs(err, errCanceled)
    THEN st
    ELSE [u |-> [st.u EXCEPT
                    !.stats.IgnoredErrorCount = IF isIgnored THEN @ + 1 ELSE @,
                    !.stats.ErrorCount = IF isIgnored THEN @ ELSE @ + 1,
                    !.canceled = IF cfg.FailFast THEN 1 ELSE @],
          b |-> addFailedEntry(st.b, entryRelativePath, isIgnored)]

\* Uploader.reportErrorAndMaybeCancel on the uploader and the builder of st
reportErrorAndMaybeCancel(cfg, st, err, isIgnored, entryRelativePath) ==
    IF /\ incompleteReason(st.u.canceled, st.u.totalWrittenBytes, cfg.MaxUploadBytes) # ""
       /\ ErrorsIs(err, errCanceled)
    THEN st
    ELSE [u |-> [st.u EXCEPT
                    !.stats.IgnoredErrorCount = IF isIgnored THEN @ + 1 ELSE @,
                    !.stats.ErrorCount = IF isIgnored THEN @ ELSE @ + 1,
                    !.canceled = IF cfg.FailFast /\ ~isIgnored THEN 1 ELSE @],
          b |-> addFailedEntry(st.b, entryRelativePath, isIgnored)]

\* processNonDirectories, the callback it hands to foreachEntryUnlessCanceled
processNonDirectory(cfg, st, entry, entryRelativePath, prevEntries) ==
    LET reported(st1, err, isIgnored) ==
            reportErrorAndMaybeCancel(cfg, st1, err, isIgnored, entryRelativePath)
            @@ [err |-> << >>]
        cached(u2, cachedDirEntry) ==
            IF cachedDirEntry.err # << >>
            THEN [u |-> u2, b |-> st.b,
                  err |-> Wrap(cachedDirEntry.err, "unable to create dir entry")]
            ELSE [u |-> u2, b |-> addEntry(st.b, cachedDirEntry.de), err |-> << >>]
        uploaded(u2, r) ==
            IF r.err # << >>
            THEN reported([u |-> u2, b |-> st.b], r.err, cfg.IgnoreFileErrors)
            ELSE [u |-> r.u, b |-> addEntry(st.b, r.de), err |-> << >>]
        hashed(u2) == uploaded(u2, uploadFileInternal(u2, entry))
        process(cachedEntry) ==
            IF cachedEntry # NilEntry
            THEN cached([st.u EXCEPT !.stats.CachedFiles = @ + 1,
                                     !.stats.TotalFileSize = @ + entry.Size],
                        newDirEntry(entry, cachedEntry.ObjectID))
            ELSE IF entry.Kind = "s"
            THEN uploaded(st.u, uploadSymlinkInternal(st.u, entry))
            ELSE IF entry.Kind = "f"
            THEN hashed([st.u EXCEPT !.stats.NonCachedFiles = @ + 1])
            ELSE IF entry.Kind = "e"
            THEN reported(st, << entry.ErrorInfo >>,
                          IF entry.ErrorInfo = "unknown" THEN TRUE ELSE cfg.IgnoreFileErrors)
            ELSE [u |-> st.u, b |-> st.b, err |-> << "unexpected entry type" >>]
    IN
    IF entry.Kind = "d" THEN [u |-> st.u, b |-> st.b, err |-> << >>]
    ELSE process(maybeIgnoreCachedEntry(findCachedEntry(entry, prevEntries),
                                        cfg.ForceHashPercentage, cfg.roll))

\* foreachEntryUnlessCanceled for processNonDirectories, from entry i on
RECURSIVE ForeachNonDirectory(_, _, _, _, _, _)
ForeachNonDirectory(cfg, st, entries, i, relativePath, prevEntries) ==
    IF i > Len(entries) THEN [u |-> st.u, b |-> st.b, err |-> << >>]
    ELSE IF incompleteReason(st.u.canceled, 0, 0) # ""
         THEN [u |-> st.u, b |-> st.b, err |-> errCanceled]
    ELSE LET next(r) ==
                 IF r.err # << >> THEN r
                 ELSE ForeachNonDirectory(cfg, [u |-> r.u, b |-> r.b], entries, i + 1,
                                          relativePath, prevEntries)
         IN next(processNonDirectory(cfg, st, entries[i],
                                     JoinPath(relativePath, entries[i].Name), prevEntries))

RECURSIVE uploadDirInternal(_, _, _, _, _)
RECURSIVE ForeachSubdirectory(_, _, _, _, _, _)

\* processSubdirectories, the callback it hands to foreachEntryUnlessCanceled
processSubdirectory(cfg, st, entry, entryRelativePath, prevEntries) ==
    IF entry.Kind # "d" THEN [u |-> st.u, b |-> st.b, err |-> << >>]
    ELSE
    LET found == [k \in 1..Len(prevEntries) |-> FindByName(prevEntries[k], entry.Name)]
        uploaded(r) ==
            IF ErrorsIs(r.err, errCanceled) THEN [u |-> r.u, b |-> st.b, err |-> r.err]
            ELSE IF r.err # << >>
            THEN IF ErrorsAsDirReadError(r.err)
                 THEN reportErrorAndMaybeCancel(cfg, [u |-> r.u, b |-> st.b],
                                                DirReadErrorOf(r.err),
                                                cfg.IgnoreDirectoryErrors,
                                                entryRelativePath)
                      @@ [err |-> << >>]
                 ELSE [u |-> r.u, b |-> st.b,
                       err |-> Wrap(r.err, "unable to process directory")]
            ELSE [u |-> r.u, b |-> addEntry(st.b, r.de), err |-> << >>]
    IN uploaded(uploadDirInternal(cfg, st.u, entry,
                                  SelectSeq(found, LAMBDA d : d # NilEntry /\ d.Kind = "d"),
                                  entryRelativePath))

\* foreachEntryUnlessCanceled for processSubdirectories, from entry i on
ForeachSubdirectory(cfg, st, entries, i, relativePath, prevEntries) ==
    IF i > Len(entries) THEN [u |-> st.u, b |-> st.b, err |-> << >>]
    ELSE IF incompleteReason(st.u.canceled, 0, 0) # ""
         THEN [u |-> st.u, b |-> st.b, err |-> errCanceled]
    ELSE LET next(r) ==
                 IF r.err # << >> THEN r
                 ELSE ForeachSubdirectory(cfg, [u |-> r.u, b |-> r.b], entries, i + 1,
                                          relativePath, prevEntries)
         IN next(processSubdirectory(cfg, st, entries[i],
                                     JoinPath(relativePath, entries[i].Name), prevEntries))

\* Uploader.processChildren
processChildren(cfg, st, relativePath, entries, prevEntries) ==
    LET nonDirectories(r2) ==
            IF r2.err # << >> /\ ~ErrorsIs(r2.err, errCanceled)
            THEN [u |-> r2.u, b |-> r2.b, err |-> Wrap(r2.err, "processing non-directories")]
            ELSE [u |-> r2.u, b |-> r2.b,
                  err |-> IF incompleteReason(r2.u.canceled, 0, 0) # ""
                          THEN errCanceled ELSE << >>]
        subdirectories(r1) ==
            IF r1.err # << >> /\ ~ErrorsIs(r1.err, errCanceled)
            THEN [u |-> r1.u, b |-> r1.b, err |-> Wrap(r1.err, "processing subdirectories")]
            ELSE nonDirectories(ForeachNonDirectory(cfg, [u |-> r1.u, b |-> r1.b], entries, 1,
                                                    relativePath, prevEntries))
    IN subdirectories(ForeachSubdirectory(cfg, st, entries, 1, relativePath, prevEntries))

\* uploadDirInternal: the object ID of a directory stands for the manifest
\* that was written under it
uploadDirInternal(cfg, u, directory, previousDirs, dirRelativePath) ==
    LET u1 == [u EXCEPT !.stats.TotalDirectoryCount = @ + 1] IN
    IF directory.Err
    THEN [u |-> u1, err |-> dirReadError(<< "readdir failed" >>), de |-> NilEntry]
    ELSE
    LET written(r, dirManifest) ==
            [u |-> r.u, err |-> << >>,
             de |-> [newDirEntry(directory, dirManifest).de
                        EXCEPT !.DirSummary = dirManifest.Summary]]
        processed(r) ==
            IF r.err # << >> /\ ~ErrorsIs(r.err, errCanceled)
            THEN [u |-> r.u, err |-> r.err, de |-> NilEntry]
            ELSE written(r, Build(r.b, directory.ModTime,
                                  incompleteReason(r.u.canceled, 0, 0)).manifest)
    IN processed(processChildren(cfg, [u |-> u1, b |-> EmptyBuilder], dirRelativePath,
                                 directory.Entries,
                                 [k \in 1..Len(previousDirs) |-> previousDirs[k].Entries]))

\* a mutant of Upload: a root that cannot be read gives an empty snapshot
\* when directory errors are ignored
UploadIgnoringRootError(cfg) ==
    LET saved(r) ==
            IF r.err # << >> /\ ~(cfg.IgnoreDirectoryErrors /\ ErrorsAsDirReadError(r.err))
    THEN [err |-> r.err, manifest |-> NilEntry]
            ELSE [err |-> << >>,
                  manifest |-> [RootEntry |-> r.de,
                                IncompleteReason |-> incompleteReason(r.u.canceled, 0, 0),
                                Stats |-> r.u.stats]]
    IN saved(uploadDirInternal(cfg, NewUploader, cfg.tree, cfg.prev, << >>))

\* Uploader.Upload of a directory
Upload(cfg) ==
    LET saved(r) ==
            IF r.err # << >> THEN [err |-> r.err, manifest |-> NilEntry]
            ELSE [err |-> << >>,
                  manifest |-> [RootEntry |-> r.de,
                                IncompleteReason |-> incompleteReason(r.u.canceled, 0, 0),
                                Stats |-> r.u.stats]]
    IN saved(uploadDirInternal(cfg, NewUploader, cfg.tree, cfg.prev, << >>))

\* the entries of the source: a file, a file that yields fewer bytes than its
\* size says, a symlink, an entry with an error, an entry of unknown type, a
\* file that cannot be opened, and directories
SrcEntry(name, kind, size, modTime, content, err, entries) ==
    [Name |-> << name >>, Kind |-> kind, Size |-> size, ModTime |-> modTime,
     Mode |-> IF kind = "e" THEN "irregular" ELSE kind, Owner |-> 1,
     Content |-> content, Err |-> err, ErrorInfo |-> "", Entries |-> entries]

SrcMenu ==
    << SrcEntry("a", "f", 2, 1, 2, FALSE, << >>),
       SrcEntry("b", "f", 3, 2, 1, FALSE, << >>),
       SrcEntry("d", "d", 0, 1, 0, FALSE, << SrcEntry("g", "f", 4, 1, 4, FALSE, << >>) >>),
       [SrcEntry("e", "e", 1, 1, 0, FALSE, << >>) EXCEPT !.ErrorInfo = "i/o error"],
       SrcEntry("f", "f", 1, 1, 0, TRUE, << >>),
       SrcEntry("l", "s", 1, 1, 1, FALSE, << >>),
       SrcEntry("n", "d", 0, 2, 0, FALSE,
                << SrcEntry("h", "f", 1, 3, 1, FALSE, << >>),
                   SrcEntry("y", "d", 0, 1, 0, TRUE, << >>) >>),
       [SrcEntry("q", "e", 1, 1, 0, FALSE, << >>) EXCEPT !.ErrorInfo = "unknown"],
       SrcEntry("x", "d", 0, 1, 0, TRUE, << >>) >>

\* the source directories: a root that cannot be read, and the roots that
\* hold at most MaxRootEntries entries of the menu, in the order of Readdir
SrcTrees ==
    { SrcEntry(".", "d", 0, 1, 0, TRUE, << >>) }
    \cup { SrcEntry(".", "d", 0, 1, 0, FALSE,
                    SelectSeq(SrcMenu, LAMBDA e : e.Name \in names)) :
             names \in { s \in SUBSET { SrcMenu[i].Name : i \in 1..Len(SrcMenu) } :
                           Cardinality(s) <= MaxRootEntries } }

\* the entries a manifest numbered k holds for entries that were uploaded
\* earlier, those named in changed with another modification time; an
\* earlier Upload left no entry for an entry with an error
RECURSIVE ManifestEntries(_, _, _)
ManifestEntries(entries, k, changed) ==
    LET kept == SelectSeq(entries, LAMBDA e : e.Kind # "e") IN
    [i \in 1..Len(kept) |->
        [Name |-> kept[i].Name, Kind |-> kept[i].Kind, Size |-> kept[i].Size,
         ModTime |-> IF kept[i].Name \in changed THEN kept[i].ModTime + 1
                     ELSE kept[i].ModTime,
         Mode |-> kept[i].Mode, Owner |-> kept[i].Owner, HasObjectID |-> TRUE,
         ObjectID |-> << "previous", k, kept[i].Name >>,
         Entries |-> ManifestEntries(kept[i].Entries, k, changed)]]

\* previousManifests: none, one of the same tree, or two: a, b, f and h have
\* changed since the first, b and f since the second
PreviousDirs(tree) ==
    LET root(k, changed) ==
            [Name |-> tree.Name, Kind |-> "d", Size |-> 0,
             ModTime |-> tree.ModTime, Mode |-> "d", Owner |-> 1,
             HasObjectID |-> TRUE, ObjectID |-> << "previous", k, tree.Name >>,
             Entries |-> ManifestEntries(tree.Entries, k, changed)]
    IN { << >>,
         << root(1, {}) >>,
         << root(1, { << "a" >>, << "b" >>, << "f" >>, << "h" >> }),
            root(2, { << "b" >>, << "f" >> }) >> }

\* the Uploads: a source, its previous manifests and the options
DirConfigs ==
    UNION { { [tree |-> tree, prev |-> prev, IgnoreDirectoryErrors |-> ide,
               IgnoreFileErrors |-> ife, FailFast |-> ff, ForceHashPercentage |-> pct,
               roll |-> 50, MaxUploadBytes |-> 0] :
                prev \in PreviousDirs(tree), ide \in BOOLEAN, ife \in BOOLEAN,
                ff \in BOOLEAN, pct \in { 0, 100 } } : tree \in SrcTrees }

InitDir ==
    /\ dirCfg \in DirConfigs
    /\ dirResult = NoResult
    /\ GCIdle
    /\ IdxIdle
    /\ MrgIdle
    /\ CciIdle
    /\ DmbIdle
    /\ UplIdle
    /\ CsiIdle
    /\ RevIdle
    /\ CpIdle
    /\ RepIdle
    /\ WlkIdle
    /\ BgIdle

\* u.Upload(ctx, source, policyTree, sourceInfo, previousManifests...)
DirUpload ==
    /\ dirResult = NoResult
    /\ dirResult' = Upload(dirCfg)
    /\ UNCHANGED dirCfg

NextDir ==
    \/ DirUpload /\ UNCHANGED << gcVars, idxVars, mrgVars, cciVars, dmbVars, uplVars, csiVars, revVars, cpVars, repVars, wlkVars, bgVars >>

SpecDir == InitDir /\ [][NextDir]_vars

\* C24: when the entries of the root directory cannot be read, Upload returns
\* an error and no manifest, whatever IgnoreDirectoryErrors and FailFast are
C24_RootReadErrorIsFatal ==
    (dirResult # NoResult /\ dirCfg.tree.Err) =>
        (dirResult.err # << >> /\ dirResult.manifest = NilEntry)

\* the root could not be read, directory errors are ignored and FailFast is
\* not set: Upload returned the error of Readdir
C24_Witness ==
    /\ dirResult # NoResult
    /\ dirCfg.tree.Err
    /\ dirCfg.IgnoreDirectoryErrors
    /\ ~dirCfg.FailFast
    /\ ErrorsAsDirReadError(dirResult.err)
    /\ dirResult.manifest = NilEntry

\* the root manifest that Upload wrote, and whether the Upload ran to its end
RootManifest == dirResult.manifest.RootEntry.ObjectID
UploadComplete ==
    /\ dirResult # NoResult
    /\ dirResult.err = << >>
    /\ dirResult.manifest.IncompleteReason = ""

\* a previous directory holds the name of e with the metadata of e and an
\* object ID, and the hit is not discarded
HoldsCached(e, prevEntries) ==
    \E k \in 1..Len(prevEntries) :
        LET ent == FindByName(prevEntries[k], e.Name) IN
        IF ent = NilEntry THEN FALSE
        ELSE /\ ent.ModTime = e.ModTime /\ ent.Mode = e.Mode
             /\ ent.Size = e.Size /\ ent.Owner = e.Owner
             /\ ent.HasObjectID
IsHit(e, prevEntries) ==
    e.Kind # "d" /\ dirCfg.roll >= dirCfg.ForceHashPercentage /\ HoldsCached(e, prevEntries)

\* the previous directories of the subdirectory e
PrevOfChild(e, prevEntries) ==
    LET found == [k \in 1..Len(prevEntries) |-> FindByName(prevEntries[k], e.Name)]
        dirs == SelectSeq(found, LAMBDA d : d # NilEntry /\ d.Kind = "d")
    IN [k \in 1..Len(dirs) |-> dirs[k].Entries]

\* over the entries of a directory and of the directories below it that can
\* be read: the number of cache hits ("cached"), the number of files that
\* are hashed ("hashed"), and the bytes of the files that are uploaded
\* without an error ("size")
RECURSIVE Tally(_, _, _)
Tally(what, entries, prevEntries) ==
    IF entries = << >> THEN 0
    ELSE LET e == Head(entries)
             hit == IsHit(e, prevEntries)
             own == CASE e.Kind = "d" ->
                           IF e.Err THEN 0
                           ELSE Tally(what, e.Entries, PrevOfChild(e, prevEntries))
                      [] what = "cached" -> IF hit THEN 1 ELSE 0
                      [] what = "hashed" -> IF e.Kind = "f" /\ ~hit THEN 1 ELSE 0
                      [] what = "size" ->
                           IF e.Kind # "f" THEN 0
                           ELSE IF hit THEN e.Size
                           ELSE IF e.Err THEN 0 ELSE e.Content
                      [] OTHER -> 0
         IN own + Tally(what, Tail(entries), prevEntries)

PrevRootEntries == [k \in 1..Len(dirCfg.prev) |-> dirCfg.prev[k].Entries]

\* C21: with ForceHashPercentage 0, a non-directory entry whose name a
\* previous manifest holds with the same modification time, mode, size and
\* owner and with an object ID is not hashed again: it is counted in
\* CachedFiles and not in NonCachedFiles, and the entry emitted for it has
\* the object ID of the previous entry and the size of the entry.
C21_CacheHit ==
    (UploadComplete /\ dirCfg.ForceHashPercentage = 0) =>
        /\ \A i \in 1..Len(dirCfg.tree.Entries) :
               LET e == dirCfg.tree.Entries[i] IN
               (e.Kind # "d" /\ HoldsCached(e, PrevRootEntries)) =>
                   \E j \in 1..Len(RootManifest.Entries) :
                       LET de == RootManifest.Entries[j] IN
                       /\ de.Name = e.Name
                       /\ de.FileSize = e.Size
                       /\ \E k \in 1..Len(PrevRootEntries) :
                              de.ObjectID = FindByName(PrevRootEntries[k], e.Name).ObjectID
        /\ dirResult.manifest.Stats.CachedFiles
               = Tally("cached", dirCfg.tree.Entries, PrevRootEntries)
        /\ dirResult.manifest.Stats.NonCachedFiles
               = Tally("hashed", dirCfg.tree.Entries, PrevRootEntries)

\* a and b are in the root, the first of two previous manifests holds both
\* with another modification time and the second holds a unchanged: the
\* entry of a has the object ID of the second manifest, b was hashed
C21_Witness ==
    /\ UploadComplete
    /\ dirCfg.ForceHashPercentage = 0
    /\ Len(dirCfg.prev) = 2
    /\ \E j \in 1..Len(RootManifest.Entries) :
           /\ RootManifest.Entries[j].Name = << "a" >>
           /\ RootManifest.Entries[j].ObjectID = << "previous", 2, << "a" >> >>
    /\ \E j \in 1..Len(RootManifest.Entries) :
           /\ RootManifest.Entries[j].Name = << "b" >>
           /\ RootManifest.Entries[j].ObjectID = << "hash", << "b" >>, 1 >>
    /\ dirResult.manifest.Stats.CachedFiles = 1
    /\ dirResult.manifest.Stats.NonCachedFiles = 1

\* the subdirectories of the root whose entries cannot be read
UnreadableSubdirs ==
    { dirCfg.tree.Entries[i].Name : i \in { k \in 1..Len(dirCfg.tree.Entries) :
        dirCfg.tree.Entries[k].Kind = "d" /\ dirCfg.tree.Entries[k].Err } }

\* with IgnoreDirectoryErrors the failure is a failed entry of the parent
\* and every other child of the parent is in its manifest or among its
\* failed entries
RecordedWhenIgnored ==
    (dirResult # NoResult /\ ~dirCfg.tree.Err /\ UnreadableSubdirs # {}
     /\ dirCfg.IgnoreDirectoryErrors) =>
        /\ dirResult.err = << >>
        /\ \A name \in UnreadableSubdirs :
               \E i \in 1..Len(RootManifest.Summary.FailedEntries) :
                   RootManifest.Summary.FailedEntries[i] = name
        /\ dirResult.manifest.IncompleteReason = "" =>
               \A i \in 1..Len(dirCfg.tree.Entries) :
                   \/ \E j \in 1..Len(RootManifest.Entries) :
                          RootManifest.Entries[j].Name = dirCfg.tree.Entries[i].Name
                   \/ \E j \in 1..Len(RootManifest.Summary.FailedEntries) :
                          RootManifest.Summary.FailedEntries[j] = dirCfg.tree.Entries[i].Name

\* without IgnoreDirectoryErrors the upload of the parent ends with the
\* error of the subdirectory
AbortsWhenNotIgnored ==
    (dirResult # NoResult /\ ~dirCfg.tree.Err /\ UnreadableSubdirs # {}
     /\ ~dirCfg.IgnoreDirectoryErrors) =>
        /\ dirResult.err # << >>
        /\ ErrorsAsDirReadError(dirResult.err)

\* C25 as stated: when the entries of a subdirectory cannot be read,
\* IgnoreDirectoryErrors true makes the failure a failed entry of the parent
\* while the remaining children are processed, and IgnoreDirectoryErrors
\* false aborts the upload of the parent directory with that error.
C25_SubdirErrorAbortsUnlessIgnored ==
    RecordedWhenIgnored /\ AbortsWhenNotIgnored

\* C26: after an Upload of a directory that ran to its end, the
\* TotalFileSize of the summary of the root entry is the sum over the files
\* below the source that gave no error, a hashed file counted by the bytes
\* written for it and a cache hit by the size of its entry.
C26_TotalFileSize ==
    UploadComplete =>
        dirResult.manifest.RootEntry.DirSummary.TotalFileSize
            = Tally("size", dirCfg.tree.Entries, PrevRootEntries)

\* a root with a (a cache hit of 2 bytes), b (3 bytes by its entry, 1 byte
\* written) and f (cannot be opened): the total is 3
C26_Witness ==
    /\ UploadComplete
    /\ { dirCfg.tree.Entries[i].Name : i \in 1..Len(dirCfg.tree.Entries) }
           = { << "a" >>, << "b" >>, << "f" >> }
    /\ Len(dirCfg.prev) = 2
    /\ dirCfg.ForceHashPercentage = 0
    /\ dirResult.manifest.Stats.CachedFiles = 1
    /\ dirResult.manifest.RootEntry.DirSummary.FatalErrorCount
           + dirResult.manifest.RootEntry.DirSummary.IgnoredErrorCount = 1
    /\ dirResult.manifest.RootEntry.DirSummary.TotalFileSize = 3

(***************************************************************************)
(* Checkpoints: the goroutine of periodicallyCheckpoint and checkpointRoot *)
(***************************************************************************)
MaxTicks == 2

IncompleteReasonCheckpoint == "checkpoint"

\* the entries that register checkpoint callbacks, and what a callback
\* returns: an entry, no entry, or an error
CpNames == { << "a" >>, << "b" >> }
CpOutcomes == { "entry", "nil", "error" }

\* how the repository fails during a checkpoint: not at all, in
\* SaveSnapshot, in ApplyRetentionPolicy or in Flush
RepoFailures == { "none", "save", "retention", "flush" }

\* checkpointRegistry.runCheckpoints(checkpointBuilder): every callback is
\* invoked, an entry that is returned is added to the builder, and the error
\* of a callback is returned
runCheckpoints(registry, checkpointBuilder) ==
    LET names == ByRank([n \in DOMAIN registry |->
                            Cardinality({ o \in DOMAIN registry : StrLess(o, n) })])
        entryOf(n) == [Name |-> n, Type |-> "d", FileSize |-> 0, ModTime |-> 1,
                       ObjectID |-> << "checkpoint", n >>, DirSummary |-> NilSummary]
        added == SelectSeq(names, LAMBDA n : registry[n] = "entry")
        AddAllEntries[i \in 0..Len(added)] ==
            IF i = 0 THEN checkpointBuilder ELSE addEntry(AddAllEntries[i - 1], entryOf(added[i]))
    IN IF \E n \in DOMAIN registry : registry[n] = "error"
       THEN [err |-> << "checkpoint error" >>, b |-> checkpointBuilder]
       ELSE [err |-> << >>, b |-> AddAllEntries[Len(added)]]

\* a mutant of checkpointRoot: of several checkpoints the first is saved
checkpointRootFirstOfMany(cp, failure) ==
    LET r == runCheckpoints(cp, EmptyBuilder)
        checkpointManifest == Build(r.b, 1, "dummy").manifest
        man == [RootEntry |-> checkpointManifest.Entries[1],
                IncompleteReason |-> IncompleteReasonCheckpoint]
    IN
    IF r.err # << >> THEN [err |-> Wrap(r.err, "running checkpointers"), saved |-> << >>]
    ELSE IF Len(checkpointManifest.Entries) = 0 THEN [err |-> << >>, saved |-> << >>]
    ELSE IF failure = "save"
        THEN [err |-> Wrap(<< failure >>, "error saving checkpoint snapshot"), saved |-> << >>]
    ELSE IF failure = "retention"
        THEN [err |-> Wrap(<< failure >>, "unable to apply retention policy"), saved |-> << man >>]
    ELSE IF failure = "flush"
        THEN [err |-> Wrap(<< failure >>, "error flushing after checkpoint"), saved |-> << man >>]
    ELSE [err |-> << >>, saved |-> << man >>]

\* Uploader.checkpointRoot: the error it returns and the manifests it saves
checkpointRoot(cp, failure) ==
    LET r == runCheckpoints(cp, EmptyBuilder)
        checkpointManifest == Build(r.b, 1, "dummy").manifest
        man == [RootEntry |-> checkpointManifest.Entries[1],
                IncompleteReason |-> IncompleteReasonCheckpoint]
    IN
    IF r.err # << >> THEN [err |-> Wrap(r.err, "running checkpointers"), saved |-> << >>]
    ELSE IF Len(checkpointManifest.Entries) = 0 THEN [err |-> << >>, saved |-> << >>]
    ELSE IF Len(checkpointManifest.Entries) > 1
        THEN [err |-> << "produced more than one checkpoint" >>, saved |-> << >>]
    ELSE IF failure = "save"
        THEN [err |-> Wrap(<< failure >>, "error saving checkpoint snapshot"), saved |-> << >>]
    ELSE IF failure = "retention"
        THEN [err |-> Wrap(<< failure >>, "unable to apply retention policy"), saved |-> << man >>]
    ELSE IF failure = "flush"
        THEN [err |-> Wrap(<< failure >>, "error flushing after checkpoint"), saved |-> << man >>]
    ELSE [err |-> << >>, saved |-> << man >>]

\* periodicallyCheckpoint has started its goroutine
InitCp ==
    /\ cpRegistry = << >>
    /\ cpLoop = "waiting"
    /\ cpShutdown = FALSE
    /\ cpCanceled = 0
    /\ cpSaved = << >>
    /\ cpTicks = 0
    /\ cpInProgress = 0
    /\ cpLast = NoResult
    /\ GCIdle
    /\ IdxIdle
    /\ MrgIdle
    /\ CciIdle
    /\ DmbIdle
    /\ UplIdle
    /\ CsiIdle
    /\ RevIdle
    /\ DirIdle
    /\ RepIdle
    /\ WlkIdle
    /\ BgIdle

\* checkpointRegistry.addCheckpointCallback
addCheckpointCallback ==
    /\ \E n \in CpNames \ DOMAIN cpRegistry : \E o \in CpOutcomes :
           cpRegistry' = (n :> o) @@ cpRegistry
    /\ UNCHANGED << cpLoop, cpShutdown, cpCanceled, cpSaved, cpTicks, cpInProgress, cpLast >>

\* checkpointRegistry.removeCheckpointCallback
removeCheckpointCallback ==
    /\ \E n \in DOMAIN cpRegistry :
           cpRegistry' = [k \in DOMAIN cpRegistry \ { n } |-> cpRegistry[k]]
    /\ UNCHANGED << cpLoop, cpShutdown, cpCanceled, cpSaved, cpTicks, cpInProgress, cpLast >>

\* the goroutine receives from the ticker and calls checkpointRoot
CpTick ==
    /\ cpLoop = "waiting"
    /\ cpTicks < MaxTicks
    /\ cpTicks' = cpTicks + 1
    /\ cpInProgress' = cpInProgress + 1
    /\ cpLoop' = "checkpointing"
    /\ UNCHANGED << cpRegistry, cpShutdown, cpCanceled, cpSaved, cpLast >>

\* a mutant of CpCheckpointRoot: the goroutine goes on after an error
CpCheckpointRootKeepsGoing ==
    /\ cpLoop = "checkpointing"
    /\ \E failure \in RepoFailures :
           LET r == checkpointRoot(cpRegistry, failure) IN
           /\ cpSaved' = cpSaved \o r.saved
           /\ cpLast' = [cp |-> cpRegistry, failure |-> failure, err |-> r.err,
                         saved |-> r.saved]
           /\ cpCanceled' = cpCanceled
           /\ cpLoop' = "waiting"
    /\ cpInProgress' = cpInProgress - 1
    /\ UNCHANGED << cpRegistry, cpShutdown, cpTicks >>

\* checkpointRoot runs and returns to the goroutine, which cancels the
\* upload and returns when it gets an error
CpCheckpointRoot ==
    /\ cpLoop = "checkpointing"
    /\ \E failure \in RepoFailures :
           LET r == checkpointRoot(cpRegistry, failure) IN
           /\ cpSaved' = cpSaved \o r.saved
           /\ cpLast' = [cp |-> cpRegistry, failure |-> failure, err |-> r.err,
                         saved |-> r.saved]
           /\ cpCanceled' = IF r.err # << >> THEN 1 ELSE cpCanceled
           /\ cpLoop' = IF r.err # << >> THEN "exited" ELSE "waiting"
    /\ cpInProgress' = cpInProgress - 1
    /\ UNCHANGED << cpRegistry, cpShutdown, cpTicks >>

\* the function periodicallyCheckpoint returned is called: close(shutdown)
CpShutdown ==
    /\ ~cpShutdown
    /\ cpShutdown' = TRUE
    /\ UNCHANGED << cpRegistry, cpLoop, cpCanceled, cpSaved, cpTicks, cpInProgress, cpLast >>

\* the goroutine receives from shutdown and returns
CpExit ==
    /\ cpLoop = "waiting"
    /\ cpShutdown
    /\ cpLoop' = "exited"
    /\ UNCHANGED << cpRegistry, cpShutdown, cpCanceled, cpSaved, cpTicks, cpInProgress, cpLast >>

NextCp ==
    \/ addCheckpointCallback /\ UNCHANGED << gcVars, idxVars, mrgVars, cciVars, dmbVars, uplVars, csiVars, revVars, dirVars, repVars, wlkVars, bgVars >>
    \/ removeCheckpointCallback /\ UNCHANGED << gcVars, idxVars, mrgVars, cciVars, dmbVars, uplVars, csiVars, revVars, dirVars, repVars, wlkVars, bgVars >>
    \/ CpTick /\ UNCHANGED << gcVars, idxVars, mrgVars, cciVars, dmbVars, uplVars, csiVars, revVars, dirVars, repVars, wlkVars, bgVars >>
    \/ CpCheckpointRoot /\ UNCHANGED << gcVars, idxVars, mrgVars, cciVars, dmbVars, uplVars, csiVars, revVars, dirVars, repVars, wlkVars, bgVars >>
    \/ CpShutdown /\ UNCHANGED << gcVars, idxVars, mrgVars, cciVars, dmbVars, uplVars, csiVars, revVars, dirVars, repVars, wlkVars, bgVars >>
    \/ CpExit /\ UNCHANGED << gcVars, idxVars, mrgVars, cciVars, dmbVars, uplVars, csiVars, revVars, dirVars, repVars, wlkVars, bgVars >>

SpecCp == InitCp /\ [][NextCp]_vars

\* the entries the callbacks of the registry of the last checkpoint return,
\* when none of them returns an error
Yielded == { n \in DOMAIN cpLast.cp : cpLast.cp[n] = "entry" }
NoCallbackError == \A n \in DOMAIN cpLast.cp : cpLast.cp[n] # "error"

\* C22 as stated: a checkpoint tick saves no manifest and returns no error
\* when the registry yields no entry, saves exactly one manifest, with
\* IncompleteReason "checkpoint", when it yields one entry, and saves none
\* and returns an error when it yields more than one.
C22_OneEntryOneManifest ==
    (cpLast # NoResult /\ NoCallbackError) =>
        /\ Len(cpLast.saved) <= 1
        /\ Cardinality(Yielded) = 0 => (cpLast.saved = << >> /\ cpLast.err = << >>)
        /\ Cardinality(Yielded) = 1 =>
               /\ Len(cpLast.saved) = 1
               /\ cpLast.saved[1].IncompleteReason = IncompleteReasonCheckpoint
        /\ Cardinality(Yielded) > 1 => (cpLast.saved = << >> /\ cpLast.err # << >>)

\* C22: a checkpoint tick saves at most one manifest: none and no error when
\* the registry yields no entry; when it yields one entry, exactly one, with
\* IncompleteReason "checkpoint" and the entry as its root, unless
\* SaveSnapshot fails, and then none and an error; none and an error when it
\* yields more than one entry or a callback returns an error.
C22_AtMostOneManifestPerTick ==
    cpLast # NoResult =>
        /\ Len(cpLast.saved) <= 1
        /\ ~NoCallbackError => (cpLast.saved = << >> /\ cpLast.err # << >>)
        /\ (NoCallbackError /\ Cardinality(Yielded) = 0) =>
               (cpLast.saved = << >> /\ cpLast.err = << >>)
        /\ (NoCallbackError /\ Cardinality(Yielded) = 1 /\ cpLast.failure # "save") =>
               /\ Len(cpLast.saved) = 1
               /\ cpLast.saved[1].IncompleteReason = IncompleteReasonCheckpoint
               /\ cpLast.saved[1].RootEntry.Name \in Yielded
               /\ cpLast.err = << >> <=> cpLast.failure = "none"
        /\ (NoCallbackError /\ Cardinality(Yielded) = 1 /\ cpLast.failure = "save") =>
               (cpLast.saved = << >> /\ cpLast.err # << >>)
        /\ (NoCallbackError /\ Cardinality(Yielded) > 1) =>
               (cpLast.saved = << >> /\ cpLast.err # << >>)

\* the second tick of an upload: the first saved a manifest, and this one,
\* with two callbacks of which one returns an entry, saved another
C22_Witness ==
    /\ cpLast # NoResult
    /\ cpTicks = 2
    /\ Cardinality(DOMAIN cpLast.cp) = 2
    /\ Cardinality(Yielded) = 1
    /\ cpLast.err = << >>
    /\ Len(cpSaved) = 2
    /\ cpSaved[2] = cpLast.saved[1]
    /\ cpSaved[2].IncompleteReason = IncompleteReasonCheckpoint

\* C23: at most one checkpoint is in progress at any time, and once a
\* checkpoint has failed the upload is canceled and no checkpoint is started
\* any more.
C23_OneCheckpointAtATime ==
    [][/\ cpInProgress' <= 1
       /\ (cpLast' # NoResult /\ cpLast'.err # << >>) =>
              (cpCanceled' # 0 /\ cpInProgress' = 0)
       /\ (cpLast # NoResult /\ cpLast.err # << >>) =>
              (cpTicks' = cpTicks /\ cpInProgress' = 0 /\ cpCanceled' # 0)]_vars

\* the first checkpoint saved a manifest and failed in Flush: the upload is
\* canceled and the goroutine has returned with a tick left to take
C23_Witness ==
    /\ cpLast # NoResult
    /\ cpLast.failure = "flush"
    /\ cpLast.err # << >>
    /\ Len(cpSaved) = 1
    /\ cpCanceled = 1
    /\ cpLoop = "exited"
    /\ cpTicks < MaxTicks

(***************************************************************************)
(* Errors of entries: reportErrorAndMaybeCancel called over and over on    *)
(* one Uploader and one directory manifest builder                         *)
(***************************************************************************)
MaxReports == 3

\* the errors that are reported: an error of the entry, the cancellation
\* signal, and the cancellation signal wrapped by the copy loop
RepErrors ==
    { << "i/o error" >>, errCanceled, Wrap(errCanceled, "canceled when copying data") }

\* the paths of the entries that fail
RepPaths == { << "a" >>, << "d", "g" >> }

InitRep ==
    /\ repCfg \in [FailFast : BOOLEAN, MaxUploadBytes : { 0, 1 }]
    /\ repU = NewUploader
    /\ repB = EmptyBuilder
    /\ repWritten = 0
    /\ repLast = NoResult
    /\ GCIdle
    /\ IdxIdle
    /\ MrgIdle
    /\ CciIdle
    /\ DmbIdle
    /\ UplIdle
    /\ CsiIdle
    /\ RevIdle
    /\ DirIdle
    /\ CpIdle
    /\ WlkIdle
    /\ BgIdle

\* an entry fails and its worker calls reportErrorAndMaybeCancel
RepReport ==
    /\ Len(repB.summary.FailedEntries) < MaxReports
    /\ \E err \in RepErrors, isIgnored \in BOOLEAN, entryRelativePath \in RepPaths :
           LET st == reportErrorAndMaybeCancel(repCfg, [u |-> repU, b |-> repB], err,
                                               isIgnored, entryRelativePath)
           IN /\ repU' = st.u
              /\ repB' = st.b
              /\ repLast' = [err |-> err, isIgnored |-> isIgnored,
                             entryRelativePath |-> entryRelativePath]
    /\ UNCHANGED << repCfg, repWritten >>

\* Uploader.Cancel, called by the owner of the upload
RepCancel ==
    /\ repU.canceled = 0
    /\ repU' = [repU EXCEPT !.canceled = 1]
    /\ repLast' = NoResult
    /\ UNCHANGED << repCfg, repB, repWritten >>

\* the copy loop writes a buffer: atomic.AddInt64(&u.totalWrittenBytes, 1)
RepWrite ==
    /\ repU.totalWrittenBytes <= repCfg.MaxUploadBytes
    /\ repU' = [repU EXCEPT !.totalWrittenBytes = @ + 1]
    /\ repWritten' = repWritten + 1
    /\ repLast' = NoResult
    /\ UNCHANGED << repCfg, repB >>

NextRep ==
    \/ RepReport /\ UNCHANGED << gcVars, idxVars, mrgVars, cciVars, dmbVars, uplVars, csiVars, revVars, dirVars, cpVars, wlkVars, bgVars >>
    \/ RepCancel /\ UNCHANGED << gcVars, idxVars, mrgVars, cciVars, dmbVars, uplVars, csiVars, revVars, dirVars, cpVars, wlkVars, bgVars >>
    \/ RepWrite /\ UNCHANGED << gcVars, idxVars, mrgVars, cciVars, dmbVars, uplVars, csiVars, revVars, dirVars, cpVars, wlkVars, bgVars >>

SpecRep == InitRep /\ [][NextRep]_vars

\* Uploader.IsCanceled of the Uploader of the reports
RepIsCanceled ==
    incompleteReason(repU.canceled, repU.totalWrittenBytes, repCfg.MaxUploadBytes) # ""

\* the call is the cancellation signal of an upload that is canceled already
RepAlreadyCanceled(err) == RepIsCanceled /\ ErrorsIs(err, errCanceled)

MaxBuffers == 2
MaxCheckpoints == 1

\* the files of the directory, and an entry of a type that
\* processNonDirectories does not know: its callback returns an error
WlkFiles == { << "a" >>, << "b" >> }
WlkOther == << "q" >>
WlkDirs == { << << "a" >>, << "b" >> >>, << << "a" >>, WlkOther >> }

\* the files whose Read can fail
WlkUnreadable == { << "b" >> }

\* how many buffers copyWithProgress reads from the file before io.EOF
WlkSize(e) == IF e = << "a" >> THEN MaxBuffers ELSE 1

\* Uploader.IsCanceled of the uploader of the directory
WlkIsCanceled == incompleteReason(wlkU.canceled, wlkU.totalWrittenBytes, 0) # ""

\* DirectorySummary.Clone: a deep copy, the failed entries are in a new array
SummaryClone(s) ==
    [s EXCEPT !.FailedEntries = [i \in 1..Len(s.FailedEntries) |-> s.FailedEntries[i]]]

\* dirManifestBuilder.Clone: the summary is cloned and the entries are copied
\* to a new array
Clone(b) ==
    [summary |-> SummaryClone(b.summary),
     entries |-> [i \in 1..Len(b.entries) |-> b.entries[i]]]

\* the names of the entries of a builder or of a manifest
WlkNames(entries) == [i \in 1..Len(entries) |-> entries[i].Name]

\* a copy is between its first IsCanceled and its return
WlkCopying(c) == c.pc \in { "check", "read" }

\* uploadDirInternal has returned, with a manifest or with an error
WlkReturned == wlkMain.pc \in { "returned", "failed" }

InitWlk ==
    /\ wlkEntries \in WlkDirs
    /\ wlkU = NewUploader
    /\ wlkMain = [pc |-> "check", i |-> 1]
    /\ wlkChild = [e \in WlkFiles \cup { WlkOther } |->
                     [pc |-> "pending", async |-> FALSE, left |-> WlkSize(e), written |-> 0,
                      err |-> << >>, cbErr |-> << >>, late |-> 0, started |-> "",
                      inFlight |-> FALSE]]
    /\ wlkBuilder = EmptyBuilder
    /\ wlkRegistry = {}
    /\ wlkCp = [pc |-> "idle"]
    /\ wlkCps = << >>
    /\ wlkHist = [after |-> 0, shadow |-> EmptyBuilder]
    /\ wlkResult = NoResult
    /\ GCIdle
    /\ IdxIdle
    /\ MrgIdle
    /\ CciIdle
    /\ DmbIdle
    /\ UplIdle
    /\ CsiIdle
    /\ RevIdle
    /\ DirIdle
    /\ CpIdle
    /\ RepIdle
    /\ BgIdle

\* foreachEntryUnlessCanceled, the head of the loop: the range is over, or
\* IsCanceled is true and the loop returns errCanceled, which processChildren
\* passes over before wg.Wait; otherwise the entry is about to be handed out
WlkForeachCheck ==
    /\ wlkMain.pc = "check"
    /\ wlkMain' = [wlkMain EXCEPT !.pc = IF wlkMain.i > Len(wlkEntries) \/ WlkIsCanceled
                                         THEN "wait" ELSE "dispatch"]
    /\ UNCHANGED << wlkEntries, wlkU, wlkChild, wlkBuilder, wlkRegistry, wlkCp, wlkCps,
                    wlkHist, wlkResult >>

\* foreachEntryUnlessCanceled, the body of the loop: wg.CanShareWork decides
\* whether the callback runs in the pool (wg.RunAsync) or in this goroutine
WlkForeachDispatch ==
    /\ wlkMain.pc = "dispatch"
    /\ \E async \in BOOLEAN :
           /\ wlkChild' = [wlkChild EXCEPT ![wlkEntries[wlkMain.i]] =
                              [@ EXCEPT !.pc = "start", !.async = async,
                                        !.started = IF WlkIsCanceled THEN "after" ELSE "before"]]
           /\ wlkMain' = IF async THEN [wlkMain EXCEPT !.pc = "check", !.i = @ + 1]
                         ELSE [wlkMain EXCEPT !.pc = "inline"]
    /\ UNCHANGED << wlkEntries, wlkU, wlkBuilder, wlkRegistry, wlkCp, wlkCps, wlkHist,
                    wlkResult >>

\* the callback that ran in the goroutine of the loop has returned: its error
\* is returned by the loop, by processNonDirectories, by processChildren
\* (wrapped, and without wg.Wait) and by uploadDirInternal
WlkForeachInline ==
    /\ wlkMain.pc = "inline"
    /\ wlkChild[wlkEntries[wlkMain.i]].pc = "done"
    /\ LET err == wlkChild[wlkEntries[wlkMain.i]].cbErr IN
       IF err # << >>
       THEN /\ wlkMain' = [wlkMain EXCEPT !.pc = "failed"]
            /\ wlkResult' = [err |-> Wrap(err, "processing non-directories"),
                             manifest |-> NoResult]
       ELSE /\ wlkMain' = [wlkMain EXCEPT !.pc = "check", !.i = @ + 1]
            /\ UNCHANGED wlkResult
    /\ UNCHANGED << wlkEntries, wlkU, wlkChild, wlkBuilder, wlkRegistry, wlkCp, wlkCps,
                    wlkHist >>

\* processChildren, wg.Wait: every work item that was handed to the pool has
\* finished; the first error of a work item is returned
WlkWait ==
    /\ wlkMain.pc = "wait"
    /\ \A e \in DOMAIN wlkChild : wlkChild[e].async => wlkChild[e].pc = "done"
    /\ LET failed == { i \in 1..Len(wlkEntries) :
                          wlkChild[wlkEntries[i]].async /\ wlkChild[wlkEntries[i]].cbErr # << >> }
       IN
       IF failed # {}
       THEN /\ wlkMain' = [wlkMain EXCEPT !.pc = "failed"]
            /\ wlkResult' = [err |-> wlkChild[wlkEntries[CHOOSE i \in failed :
                                                  \A j \in failed : i <= j]].cbErr,
                             manifest |-> NoResult]
       ELSE /\ wlkMain' = [wlkMain EXCEPT !.pc = "build"]
            /\ UNCHANGED wlkResult
    /\ UNCHANGED << wlkEntries, wlkU, wlkChild, wlkBuilder, wlkRegistry, wlkCp, wlkCps,
                    wlkHist >>

\* uploadDirInternal after processChildren returned nil or errCanceled:
\* thisDirBuilder.Build(dirModTime, u.incompleteReason()) and the return
WlkBuild ==
    /\ wlkMain.pc = "build"
    /\ LET built == Build(wlkBuilder, 1, incompleteReason(wlkU.canceled,
                                                          wlkU.totalWrittenBytes, 0))
       IN /\ wlkBuilder' = built.b
          /\ wlkResult' = [err |-> << >>, manifest |-> built.manifest]
    /\ wlkMain' = [wlkMain EXCEPT !.pc = "returned"]
    /\ UNCHANGED << wlkEntries, wlkU, wlkChild, wlkRegistry, wlkCp, wlkCps, wlkHist >>

\* the callback of an entry starts: uploadFileInternal opens the file and
\* registers the checkpoint callback of the file; for an entry of an unknown
\* type the callback returns an error
WlkStart(e) ==
    /\ wlkChild[e].pc = "start"
    /\ IF e = WlkOther
       THEN /\ wlkChild' = [wlkChild EXCEPT ![e] =
                               [@ EXCEPT !.pc = "done", !.cbErr = << "unexpected entry type" >>]]
            /\ UNCHANGED wlkRegistry
       ELSE /\ wlkChild' = [wlkChild EXCEPT ![e] = [@ EXCEPT !.pc = "check"]]
            /\ wlkRegistry' = wlkRegistry \cup { e }
    /\ UNCHANGED << wlkEntries, wlkU, wlkMain, wlkBuilder, wlkCp, wlkCps, wlkHist,
                    wlkResult >>

\* a mutant of WlkCopyCheck: the copy does not look at IsCanceled
WlkCopyCheckNever(e) ==
    /\ wlkChild[e].pc = "check"
    /\ wlkChild' = [wlkChild EXCEPT ![e] = [@ EXCEPT !.pc = "read"]]
    /\ UNCHANGED << wlkEntries, wlkU, wlkMain, wlkBuilder, wlkRegistry, wlkCp, wlkCps,
                    wlkHist, wlkResult >>

\* copyWithProgress, the head of the loop: when IsCanceled is true the copy
\* returns errCanceled, wrapped
WlkCopyCheck(e) ==
    /\ wlkChild[e].pc = "check"
    /\ wlkChild' = [wlkChild EXCEPT ![e] =
                       IF WlkIsCanceled
                       THEN [@ EXCEPT !.pc = "remove",
                                      !.err = Wrap(errCanceled, "canceled when copying data")]
                       ELSE [@ EXCEPT !.pc = "read"]]
    /\ UNCHANGED << wlkEntries, wlkU, wlkMain, wlkBuilder, wlkRegistry, wlkCp, wlkCps,
                    wlkHist, wlkResult >>

\* copyWithProgress, one round trip: src.Read(uploadBuf) gives a buffer of
\* data, which dst.Write writes and the count of the written bytes takes in,
\* or io.EOF, on which the copy returns what it has written and no error, or
\* an error of the file, which the copy returns
WlkCopyRead(e) ==
    /\ wlkChild[e].pc = "read"
    /\ \E readErr \in IF e \in WlkUnreadable THEN { << >>, << "read error" >> } ELSE { << >> } :
           LET readBytes == IF readErr = << >> /\ wlkChild[e].left > 0 THEN 1 ELSE 0 IN
           /\ wlkChild' = [wlkChild EXCEPT ![e] =
                              [@ EXCEPT !.pc = IF readBytes > 0 THEN "check" ELSE "remove",
                                        !.left = @ - readBytes,
                                        !.written = @ + readBytes,
                                        !.err = readErr,
                                        !.late = IF WlkIsCanceled THEN @ + 1 ELSE @]]
           /\ wlkU' = [wlkU EXCEPT !.totalWrittenBytes = @ + readBytes]
    /\ UNCHANGED << wlkEntries, wlkMain, wlkBuilder, wlkRegistry, wlkCp, wlkCps, wlkHist,
                    wlkResult >>

\* a mutant of WlkRemove: the callback of the file stays in the registry
WlkRemoveNothing(e) ==
    /\ wlkChild[e].pc = "remove"
    /\ wlkChild' = [wlkChild EXCEPT ![e] = [@ EXCEPT !.pc = "add"]]
    /\ UNCHANGED << wlkEntries, wlkU, wlkMain, wlkBuilder, wlkRegistry, wlkCp, wlkCps,
                    wlkHist, wlkResult >>

\* uploadFileInternal returns: the deferred removeCheckpointCallback(f)
WlkRemove(e) ==
    /\ wlkChild[e].pc = "remove"
    /\ wlkChild' = [wlkChild EXCEPT ![e] = [@ EXCEPT !.pc = "add"]]
    /\ wlkRegistry' = wlkRegistry \ { e }
    /\ UNCHANGED << wlkEntries, wlkU, wlkMain, wlkBuilder, wlkCp, wlkCps, wlkHist,
                    wlkResult >>

\* the entry uploadFileInternal returns for a file it has copied
WlkEntry(e) ==
    [Name |-> e, Type |-> "f", FileSize |-> wlkChild[e].written, ModTime |-> 1,
     ObjectID |-> << "hash", e >>, DirSummary |-> NilSummary]

\* the callback of processNonDirectories after uploadFileInternal: an error
\* goes to reportErrorAndMaybeCancel, an entry to parentDirBuilder.addEntry;
\* the callback returns nil
WlkAdd(e) ==
    /\ wlkChild[e].pc = "add"
    /\ wlkChild' = [wlkChild EXCEPT ![e] = [@ EXCEPT !.pc = "done"]]
    /\ IF wlkChild[e].err # << >>
       THEN LET r == reportErrorAndMaybeCancel([FailFast |-> FALSE, MaxUploadBytes |-> 0],
                                               [u |-> wlkU, b |-> wlkBuilder],
                                               wlkChild[e].err, FALSE, e)
            IN /\ wlkU' = r.u
               /\ wlkBuilder' = r.b
               /\ wlkHist' = [after |-> IF WlkReturned /\ r.b # wlkBuilder
                                        THEN wlkHist.after + 1 ELSE wlkHist.after,
                              shadow |-> IF r.b # wlkBuilder
                                         THEN addFailedEntry(wlkHist.shadow, e, FALSE)
                                         ELSE wlkHist.shadow]
       ELSE /\ wlkBuilder' = addEntry(wlkBuilder, WlkEntry(e))
            /\ wlkHist' = [after |-> IF WlkReturned THEN wlkHist.after + 1 ELSE wlkHist.after,
                           shadow |-> addEntry(wlkHist.shadow, WlkEntry(e))]
            /\ UNCHANGED wlkU
    /\ UNCHANGED << wlkEntries, wlkMain, wlkRegistry, wlkCp, wlkCps, wlkResult >>

\* Uploader.Cancel
WlkCancel ==
    /\ wlkU.canceled = 0
    /\ wlkU' = [wlkU EXCEPT !.canceled = 1]
    /\ wlkChild' = [e \in DOMAIN wlkChild |->
                      [wlkChild[e] EXCEPT !.inFlight = WlkCopying(wlkChild[e])]]
    /\ UNCHANGED << wlkEntries, wlkMain, wlkBuilder, wlkRegistry, wlkCp, wlkCps, wlkHist,
                    wlkResult >>

\* the checkpoint callback of the directory, which is registered until
\* uploadDirInternal returns, is invoked: thisDirBuilder.Clone()
WlkCpClone ==
    /\ wlkCp.pc = "idle"
    /\ ~WlkReturned
    /\ Len(wlkCps) < MaxCheckpoints
    /\ wlkCp' = [pc |-> "cloned", clone |-> Clone(wlkBuilder),
                 added |-> { wlkBuilder.entries[i].Name : i \in 1..Len(wlkBuilder.entries) },
                 produced |-> { e \in WlkFiles : wlkChild[e].pc \in { "add", "done" }
                                                    /\ wlkChild[e].err = << >> },
                 partial |-> { e \in wlkRegistry : wlkChild[e].written > 0 }]
    /\ UNCHANGED << wlkEntries, wlkU, wlkMain, wlkChild, wlkBuilder, wlkRegistry, wlkCps,
                    wlkHist, wlkResult >>

\* the checkpoint callback: childCheckpointRegistry.runCheckpoints on the
\* clone; the callback of a file returns an entry when writer.Checkpoint
\* gives an object ID, which it does when something has been written
WlkCpRun ==
    /\ wlkCp.pc = "cloned"
    /\ LET r == runCheckpoints([e \in wlkRegistry |->
                                   IF wlkChild[e].written > 0 THEN "entry" ELSE "nil"],
                               wlkCp.clone)
       IN wlkCp' = [wlkCp EXCEPT !.pc = "ran", !.clone = r.b] @@
                   [registered |-> { e \in wlkRegistry : wlkChild[e].written > 0 }]
    /\ UNCHANGED << wlkEntries, wlkU, wlkMain, wlkChild, wlkBuilder, wlkRegistry, wlkCps,
                    wlkHist, wlkResult >>

\* a mutant of WlkCpBuild: the entries of the clone are in the array of the
\* entries of thisDirBuilder, so that the Build of the clone sorts them there
WlkCpBuildShared ==
    /\ wlkCp.pc = "ran"
    /\ LET built == Build(wlkCp.clone, 1, IncompleteReasonCheckpoint) IN
       /\ wlkCps' = Append(wlkCps, [names |-> WlkNames(built.manifest.Entries),
                                    reason |-> built.manifest.Summary.IncompleteReason,
                                    added |-> wlkCp.added, produced |-> wlkCp.produced,
                                    partial |-> wlkCp.partial,
                                    registered |-> wlkCp.registered])
       /\ wlkBuilder' = [wlkBuilder EXCEPT !.entries =
                            [i \in 1..Len(@) |-> IF i <= Len(built.b.entries)
                                                 THEN built.b.entries[i] ELSE @[i]]]
    /\ wlkCp' = [pc |-> "idle"]
    /\ UNCHANGED << wlkEntries, wlkU, wlkMain, wlkChild, wlkRegistry, wlkHist, wlkResult >>

\* the checkpoint callback: thisCheckpointBuilder.Build(directory.ModTime(),
\* IncompleteReasonCheckpoint) and writeDirManifest
WlkCpBuild ==
    /\ wlkCp.pc = "ran"
    /\ LET built == Build(wlkCp.clone, 1, IncompleteReasonCheckpoint) IN
       wlkCps' = Append(wlkCps, [names |-> WlkNames(built.manifest.Entries),
                                 reason |-> built.manifest.Summary.IncompleteReason,
                                 added |-> wlkCp.added, produced |-> wlkCp.produced,
                                 partial |-> wlkCp.partial,
                                 registered |-> wlkCp.registered])
    /\ wlkCp' = [pc |-> "idle"]
    /\ UNCHANGED << wlkEntries, wlkU, wlkMain, wlkChild, wlkBuilder, wlkRegistry, wlkHist,
                    wlkResult >>

NextWlk ==
    \/ WlkForeachCheck /\ UNCHANGED << gcVars, idxVars, mrgVars, cciVars, dmbVars, uplVars, csiVars, revVars, dirVars, cpVars, repVars, bgVars >>
    \/ WlkForeachDispatch /\ UNCHANGED << gcVars, idxVars, mrgVars, cciVars, dmbVars, uplVars, csiVars, revVars, dirVars, cpVars, repVars, bgVars >>
    \/ WlkForeachInline /\ UNCHANGED << gcVars, idxVars, mrgVars, cciVars, dmbVars, uplVars, csiVars, revVars, dirVars, cpVars, repVars, bgVars >>
    \/ WlkWait /\ UNCHANGED << gcVars, idxVars, mrgVars, cciVars, dmbVars, uplVars, csiVars, revVars, dirVars, cpVars, repVars, bgVars >>
    \/ WlkBuild /\ UNCHANGED << gcVars, idxVars, mrgVars, cciVars, dmbVars, uplVars, csiVars, revVars, dirVars, cpVars, repVars, bgVars >>
    \/ (\E e \in DOMAIN wlkChild : WlkStart(e)) /\ UNCHANGED << gcVars, idxVars, mrgVars, cciVars, dmbVars, uplVars, csiVars, revVars, dirVars, cpVars, repVars, bgVars >>
    \/ (\E e \in DOMAIN wlkChild : WlkCopyCheck(e)) /\ UNCHANGED << gcVars, idxVars, mrgVars, cciVars, dmbVars, uplVars, csiVars, revVars, dirVars, cpVars, repVars, bgVars >>
    \/ (\E e \in DOMAIN wlkChild : WlkCopyRead(e)) /\ UNCHANGED << gcVars, idxVars, mrgVars, cciVars, dmbVars, uplVars, csiVars, revVars, dirVars, cpVars, repVars, bgVars >>
    \/ (\E e \in DOMAIN wlkChild : WlkRemove(e)) /\ UNCHANGED << gcVars, idxVars, mrgVars, cciVars, dmbVars, uplVars, csiVars, revVars, dirVars, cpVars, repVars, bgVars >>
    \/ (\E e \in DOMAIN wlkChild : WlkAdd(e)) /\ UNCHANGED << gcVars, idxVars, mrgVars, cciVars, dmbVars, uplVars, csiVars, revVars, dirVars, cpVars, repVars, bgVars >>
    \/ WlkCancel /\ UNCHANGED << gcVars, idxVars, mrgVars, cciVars, dmbVars, uplVars, csiVars, revVars, dirVars, cpVars, repVars, bgVars >>
    \/ WlkCpClone /\ UNCHANGED << gcVars, idxVars, mrgVars, cciVars, dmbVars, uplVars, csiVars, revVars, dirVars, cpVars, repVars, bgVars >>
    \/ WlkCpRun /\ UNCHANGED << gcVars, idxVars, mrgVars, cciVars, dmbVars, uplVars, csiVars, revVars, dirVars, cpVars, repVars, bgVars >>
    \/ WlkCpBuild /\ UNCHANGED << gcVars, idxVars, mrgVars, cciVars, dmbVars, uplVars, csiVars, revVars, dirVars, cpVars, repVars, bgVars >>

SpecWlk == InitWlk /\ [][NextWlk]_vars

\* the copy of an entry has returned
WlkCopyReturned(c) == c.pc \in { "remove", "add", "done" }

\* C31 as it is stated: once IsCanceled is true every copy that is in flight
\* returns a canceled error after the round trip it is in, and no entry is
\* started afterwards
C31_CanceledCopyReturnsCanceled ==
    \A e \in DOMAIN wlkChild :
        /\ wlkChild[e].late <= 1
        /\ wlkChild[e].started # "after"
        /\ (wlkChild[e].inFlight /\ WlkCopyReturned(wlkChild[e])) =>
               ErrorsIs(wlkChild[e].err, errCanceled)

\* C31: once IsCanceled is true a copy reads at most once more, the Read of
\* the round trip it is in, and then returns a canceled error, unless that
\* Read gives io.EOF or an error, on which the copy returns as it does without
\* cancellation; the loop starts at most one entry afterwards, the one whose
\* check of IsCanceled came before the cancellation, and the copy of that
\* entry reads nothing
C31_CanceledCopyStopsAfterRoundTrip ==
    /\ \A e \in DOMAIN wlkChild :
           /\ wlkChild[e].late <= 1
           /\ (wlkChild[e].inFlight /\ WlkCopyReturned(wlkChild[e])) =>
                  \/ ErrorsIs(wlkChild[e].err, errCanceled)
                  \/ /\ wlkChild[e].late = 1
                     /\ \/ wlkChild[e].err = << >> /\ wlkChild[e].left = 0
                        \/ wlkChild[e].err = << "read error" >>
           /\ wlkChild[e].started = "after" =>
                  /\ wlkChild[e].late = 0
                  /\ wlkChild[e].written = 0
                  /\ (e \in WlkFiles /\ WlkCopyReturned(wlkChild[e])) =>
                         ErrorsIs(wlkChild[e].err, errCanceled)
    /\ Cardinality({ e \in DOMAIN wlkChild : wlkChild[e].started = "after" }) <= 1

\* a copy that was in its round trip when the upload was canceled has read
\* once more, written what it read and returned the canceled error
C31_Witness ==
    \E e \in DOMAIN wlkChild :
        /\ wlkChild[e].inFlight
        /\ wlkChild[e].late = 1
        /\ wlkChild[e].written > 0
        /\ wlkChild[e].pc = "done"
        /\ ErrorsIs(wlkChild[e].err, errCanceled)

\* C33: a step of the checkpoint callback leaves thisDirBuilder and the
\* registry of the children as they are, and the manifest uploadDirInternal
\* returns is the one that is built, with the incomplete reason it has, from
\* the entries and the failures the children added, as if no checkpoint had
\* run
C33_CheckpointLeavesBuilder ==
    /\ [][wlkCp' # wlkCp =>
             /\ wlkBuilder' = wlkBuilder
             /\ wlkRegistry' = wlkRegistry
             /\ wlkChild' = wlkChild
             /\ wlkResult' = wlkResult]_vars
    /\ [](wlkMain.pc = "returned" =>
             wlkResult.manifest =
                 Build(wlkHist.shadow, 1, wlkResult.manifest.Summary.IncompleteReason).manifest)

\* uploadDirInternal has returned a manifest with an entry and a failure
\* after a checkpoint was written while a child was being uploaded
C33_Witness ==
    /\ wlkMain.pc = "returned"
    /\ Len(wlkCps) > 0
    /\ wlkCps[1].registered # {}
    /\ Len(wlkResult.manifest.Entries) > 0
    /\ Len(wlkResult.manifest.Summary.FailedEntries) > 0

\* how often a name is among the names of a manifest
WlkCount(names, e) == Cardinality({ i \in 1..Len(names) : names[i] = e })

\* C37 as it is stated: the manifest of a checkpoint has exactly once every
\* child whose entry had been produced, and every child that was being
\* uploaded and had written something, when the callback started
C37_CheckpointHasEveryChild ==
    \A k \in 1..Len(wlkCps) :
        /\ \A e \in DOMAIN wlkChild : WlkCount(wlkCps[k].names, e) <= 1
        /\ \A e \in wlkCps[k].produced \cup wlkCps[k].partial :
               WlkCount(wlkCps[k].names, e) = 1

\* C37: the manifest of a checkpoint has no name twice; it has exactly the
\* children whose entry was in thisDirBuilder when it was cloned and the
\* children whose callback was registered, with something written, when
\* runCheckpoints ran
C37_CheckpointHasNoChildTwice ==
    \A k \in 1..Len(wlkCps) :
        /\ \A e \in DOMAIN wlkChild : WlkCount(wlkCps[k].names, e) <= 1
        /\ { wlkCps[k].names[i] : i \in 1..Len(wlkCps[k].names) } =
               wlkCps[k].added \cup wlkCps[k].registered
        /\ wlkCps[k].reason = IncompleteReasonCheckpoint

\* a checkpoint was written with a child that had finished and a child that
\* was being uploaded
C37_Witness ==
    \E k \in 1..Len(wlkCps) :
        /\ wlkCps[k].added # {}
        /\ wlkCps[k].registered # {}
        /\ Len(wlkCps[k].names) = Cardinality(wlkCps[k].added \cup wlkCps[k].registered)

\* C38 as it is stated: when processChildren and uploadDirInternal have
\* returned, no work item of the directory is running and nothing has been
\* added to the builder since
C38_NoWorkAfterReturn ==
    WlkReturned =>
        /\ \A e \in DOMAIN wlkChild : wlkChild[e].pc \in { "pending", "done" }
        /\ wlkHist.after = 0

\* what holds of the returns after wg.Wait: a manifest is built, or the error
\* of a work item is returned, when no work item is running
WaitedReturnIsQuiet ==
    (WlkReturned /\ (wlkResult.err = << >> \/ wlkResult.err = << "unexpected entry type" >>)) =>
        /\ \A e \in DOMAIN wlkChild : wlkChild[e].pc \in { "pending", "done" }
        /\ wlkHist.after = 0

(***************************************************************************)
(* Upload of a directory and the two goroutines it starts: the estimation  *)
(* (scanDirectory, then Progress.EstimatedDataSize) and the loop of        *)
(* periodicallyCheckpoint.  checkpointRoot is two steps: the callbacks run *)
(* and the manifest is made, then SaveSnapshot and what follows it.        *)
(***************************************************************************)
MaxScan == 2

\* the entry of the root directory in the registry of the upload
BgRoot == << "a" >>

\* Upload has started the estimation, uploadDirWithCheckpointing has started
\* the loop of the checkpoints and uploadDirInternal has registered the
\* checkpoint callback of the root directory
InitBg ==
    /\ bgPC = "uploading"
    /\ bgErr = << >>
    /\ bgScanCtx = FALSE
    /\ bgScan = [pc |-> "scanning", numFiles |-> 0]
    /\ bgEstimates = << >>
    /\ bgShutdown = FALSE
    /\ bgLoop = [pc |-> "waiting", ticks |-> 0]
    /\ bgCp \in [{ BgRoot } -> { "entry", "error" }]
    /\ bgCanceled = 0
    /\ bgSaved = << >>
    /\ bgResult = NoResult
    /\ GCIdle
    /\ IdxIdle
    /\ MrgIdle
    /\ CciIdle
    /\ DmbIdle
    /\ UplIdle
    /\ CsiIdle
    /\ RevIdle
    /\ DirIdle
    /\ CpIdle
    /\ RepIdle
    /\ WlkIdle

\* uploadDirInternal returns the entry of the root directory or an error; its
\* deferred removeCheckpointCallback(directory) has run
BgUploadDirReturns ==
    /\ bgPC = "uploading"
    /\ \E err \in { << >>, << "error writing dir manifest" >> } : bgErr' = err
    /\ bgCp' = << >>
    /\ bgPC' = "deferred"
    /\ UNCHANGED << bgScanCtx, bgScan, bgEstimates, bgShutdown, bgLoop, bgCanceled, bgSaved,
                    bgResult >>

\* uploadDirWithCheckpointing returns: the deferred cancelCheckpointer(),
\* which is close(shutdown)
BgCancelCheckpointer ==
    /\ bgPC = "deferred"
    /\ bgShutdown' = TRUE
    /\ bgPC' = "back"
    /\ UNCHANGED << bgErr, bgScanCtx, bgScan, bgEstimates, bgLoop, bgCp, bgCanceled, bgSaved,
                    bgResult >>

\* Upload, if err != nil: return nil, err; the deferred cancelScan() runs
BgUploadFails ==
    /\ bgPC = "back"
    /\ bgErr # << >>
    /\ bgScanCtx' = TRUE
    /\ bgResult' = [err |-> bgErr, manifest |-> NoResult]
    /\ bgPC' = "returned"
    /\ UNCHANGED << bgErr, bgScan, bgEstimates, bgShutdown, bgLoop, bgCp, bgCanceled, bgSaved >>

\* Upload, after uploadDirWithCheckpointing returned no error: cancelScan()
BgCancelScan ==
    /\ bgPC = "back"
    /\ bgErr = << >>
    /\ bgScanCtx' = TRUE
    /\ bgPC' = "waitScan"
    /\ UNCHANGED << bgErr, bgScan, bgEstimates, bgShutdown, bgLoop, bgCp, bgCanceled, bgSaved,
                    bgResult >>

\* Upload: scanWG.Wait() returns when the goroutine of the estimation has
\* returned; the manifest gets u.incompleteReason() and is returned
BgScanWait ==
    /\ bgPC = "waitScan"
    /\ bgScan.pc = "done"
    /\ bgResult' = [err |-> << >>,
                    manifest |-> [RootEntry |-> BgRoot,
                                  IncompleteReason |-> incompleteReason(bgCanceled, 0, 0)]]
    /\ bgPC' = "returned"
    /\ UNCHANGED << bgErr, bgScanCtx, bgScan, bgEstimates, bgShutdown, bgLoop, bgCp, bgCanceled,
                    bgSaved >>

\* the estimation, scanDirectory: one more file is counted
BgScanEntry ==
    /\ bgScan.pc = "scanning"
    /\ bgScan.numFiles < MaxScan
    /\ bgScan' = [bgScan EXCEPT !.numFiles = @ + 1]
    /\ UNCHANGED << bgPC, bgErr, bgScanCtx, bgEstimates, bgShutdown, bgLoop, bgCp, bgCanceled,
                    bgSaved, bgResult >>

\* the estimation, scanDirectory returns: the tree has been walked, or
\* scanctx is canceled; its error is dropped
BgScanReturns ==
    /\ bgScan.pc = "scanning"
    /\ bgScan.numFiles = MaxScan \/ bgScanCtx
    /\ bgScan' = [bgScan EXCEPT !.pc = "report"]
    /\ UNCHANGED << bgPC, bgErr, bgScanCtx, bgEstimates, bgShutdown, bgLoop, bgCp, bgCanceled,
                    bgSaved, bgResult >>

\* the estimation: u.Progress.EstimatedDataSize(ds.numFiles, ds.totalFileSize)
\* and the deferred scanWG.Done()
BgEstimatedDataSize ==
    /\ bgScan.pc = "report"
    /\ bgEstimates' = Append(bgEstimates, [numFiles |-> bgScan.numFiles,
                                           afterReturn |-> bgPC = "returned"])
    /\ bgScan' = [bgScan EXCEPT !.pc = "done"]
    /\ UNCHANGED << bgPC, bgErr, bgScanCtx, bgShutdown, bgLoop, bgCp, bgCanceled, bgSaved,
                    bgResult >>

\* the select of the loop receives from the ticker; select takes any case
\* that is ready, so the closed shutdown does not keep a tick from being taken
BgTick ==
    /\ bgLoop.pc = "waiting"
    /\ bgLoop.ticks < MaxTicks
    /\ bgLoop' = [pc |-> "checkpointing", ticks |-> bgLoop.ticks + 1]
    /\ UNCHANGED << bgPC, bgErr, bgScanCtx, bgScan, bgEstimates, bgShutdown, bgCp, bgCanceled,
                    bgSaved, bgResult >>

\* checkpointRoot: the callbacks of the registry run and the manifest of the
\* checkpoint is made
BgCheckpointRun ==
    /\ bgLoop.pc = "checkpointing"
    /\ \E failure \in RepoFailures :
           bgLoop' = [pc |-> "saving", ticks |-> bgLoop.ticks,
                      pending |-> checkpointRoot(bgCp, failure)]
    /\ UNCHANGED << bgPC, bgErr, bgScanCtx, bgScan, bgEstimates, bgShutdown, bgCp, bgCanceled,
                    bgSaved, bgResult >>

\* checkpointRoot: SaveSnapshot, ApplyRetentionPolicy and Flush, and the
\* return to the loop, which cancels the upload and returns on an error
BgCheckpointSave ==
    /\ bgLoop.pc = "saving"
    /\ bgSaved' = bgSaved \o [i \in 1..Len(bgLoop.pending.saved) |->
                                 [manifest |-> bgLoop.pending.saved[i],
                                  afterReturn |-> bgPC = "returned"]]
    /\ bgCanceled' = IF bgLoop.pending.err # << >> THEN 1 ELSE bgCanceled
    /\ bgLoop' = [pc |-> IF bgLoop.pending.err # << >> THEN "exited" ELSE "waiting",
                  ticks |-> bgLoop.ticks]
    /\ UNCHANGED << bgPC, bgErr, bgScanCtx, bgScan, bgEstimates, bgShutdown, bgCp, bgResult >>

\* the select of the loop receives from shutdown: the goroutine returns
BgLoopExit ==
    /\ bgLoop.pc = "waiting"
    /\ bgShutdown
    /\ bgLoop' = [pc |-> "exited", ticks |-> bgLoop.ticks]
    /\ UNCHANGED << bgPC, bgErr, bgScanCtx, bgScan, bgEstimates, bgShutdown, bgCp, bgCanceled,
                    bgSaved, bgResult >>

NextBg ==
    \/ BgUploadDirReturns /\ UNCHANGED << gcVars, idxVars, mrgVars, cciVars, dmbVars, uplVars, csiVars, revVars, dirVars, cpVars, repVars, wlkVars >>
    \/ BgCancelCheckpointer /\ UNCHANGED << gcVars, idxVars, mrgVars, cciVars, dmbVars, uplVars, csiVars, revVars, dirVars, cpVars, repVars, wlkVars >>
    \/ BgUploadFails /\ UNCHANGED << gcVars, idxVars, mrgVars, cciVars, dmbVars, uplVars, csiVars, revVars, dirVars, cpVars, repVars, wlkVars >>
    \/ BgCancelScan /\ UNCHANGED << gcVars, idxVars, mrgVars, cciVars, dmbVars, uplVars, csiVars, revVars, dirVars, cpVars, repVars, wlkVars >>
    \/ BgScanWait /\ UNCHANGED << gcVars, idxVars, mrgVars, cciVars, dmbVars, uplVars, csiVars, revVars, dirVars, cpVars, repVars, wlkVars >>
    \/ BgScanEntry /\ UNCHANGED << gcVars, idxVars, mrgVars, cciVars, dmbVars, uplVars, csiVars, revVars, dirVars, cpVars, repVars, wlkVars >>
    \/ BgScanReturns /\ UNCHANGED << gcVars, idxVars, mrgVars, cciVars, dmbVars, uplVars, csiVars, revVars, dirVars, cpVars, repVars, wlkVars >>
    \/ BgEstimatedDataSize /\ UNCHANGED << gcVars, idxVars, mrgVars, cciVars, dmbVars, uplVars, csiVars, revVars, dirVars, cpVars, repVars, wlkVars >>
    \/ BgTick /\ UNCHANGED << gcVars, idxVars, mrgVars, cciVars, dmbVars, uplVars, csiVars, revVars, dirVars, cpVars, repVars, wlkVars >>
    \/ BgCheckpointRun /\ UNCHANGED << gcVars, idxVars, mrgVars, cciVars, dmbVars, uplVars, csiVars, revVars, dirVars, cpVars, repVars, wlkVars >>
    \/ BgCheckpointSave /\ UNCHANGED << gcVars, idxVars, mrgVars, cciVars, dmbVars, uplVars, csiVars, revVars, dirVars, cpVars, repVars, wlkVars >>
    \/ BgLoopExit /\ UNCHANGED << gcVars, idxVars, mrgVars, cciVars, dmbVars, uplVars, csiVars, revVars, dirVars, cpVars, repVars, wlkVars >>

SpecBg == InitBg /\ [][NextBg]_vars

\* C34 as it is stated: when Upload has returned, the estimation has been
\* canceled and has finished, and no call of EstimatedDataSize comes after
\* the return
C34_EstimationDoneAtReturn ==
    bgPC = "returned" =>
        /\ bgScanCtx
        /\ bgScan.pc = "done"
        /\ \A i \in 1..Len(bgEstimates) : ~bgEstimates[i].afterReturn

\* what holds of the estimation: it is canceled when Upload returns, it has
\* finished when Upload returns a manifest, and the manifest has nothing of it
EstimationDoneWithManifest ==
    bgPC = "returned" =>
        /\ bgScanCtx
        /\ bgResult.err = << >> =>
               /\ bgScan.pc = "done"
               /\ Len(bgEstimates) = 1
               /\ ~bgEstimates[1].afterReturn
               /\ bgResult.manifest.RootEntry = BgRoot

\* C39 as it is stated: when Upload has returned no checkpoint is running,
\* and no checkpoint manifest has been saved after the return
C39_NoCheckpointAfterReturn ==
    bgPC = "returned" =>
        /\ bgLoop.pc \in { "waiting", "exited" }
        /\ \A i \in 1..Len(bgSaved) : ~bgSaved[i].afterReturn

\* what holds of the checkpoints: a checkpoint that starts after
\* uploadDirInternal has returned finds no callback and saves nothing
LateCheckpointSavesNothing ==
    [][(bgLoop.pc = "checkpointing" /\ bgPC # "uploading" /\ bgLoop'.pc = "saving") =>
           (bgLoop'.pending.saved = << >> /\ bgLoop'.pending.err = << >>)]_vars

\* a checkpoint manifest was saved after Upload had returned
CheckpointSavedAfterReturn == \E i \in 1..Len(bgSaved) : bgSaved[i].afterReturn

\* EstimatedDataSize was called after Upload had returned
EstimatedAfterReturn == \E i \in 1..Len(bgEstimates) : bgEstimates[i].afterReturn

====
